---------------------------- MODULE Spec2Model ----------------------------
(***************************************************************************)
(* The per-client token-bucket rate limiter of the IP geolocation service  *)
(* (internal/middleware/rate_limiter.go) and the middleware chain that     *)
(* uses it (handlers/router.go).                                           *)
(*                                                                         *)
(* Time is counted in ticks, TicksPerSecond ticks to the second.  A        *)
(* time.Time is a tick count; ZeroTime is the zero time.Time, which is     *)
(* what a freshly constructed limiter holds in lastCleanup and what a map  *)
(* read of a missing lastUpdate entry yields.                              *)
(***************************************************************************)
EXTENDS Integers, FiniteSets, Sequences, TLC

(* ------------------------------ bounds -------------------------------- *)
TicksPerSecond == 3
MaxTime == 5
MaxRate == 3
MaxBurst == 2
MaxInterval == 2
MaxThreshold == 2
MaxSkew == 1

Keys == {"a", "b"}
\* The configurations a limiter is constructed with: zero, one and the largest
\* rate and burst, the shortest and the longest interval and threshold.
Rates == {0, 1, MaxRate}
Bursts == {0, 1, MaxBurst}
Intervals == {1, MaxInterval}
Thresholds == {1, MaxThreshold}

(* ------------------------------- time --------------------------------- *)
ZeroTime == -1
\* time.Duration saturates: the distance from the zero time to any instant
\* of the run is larger than every interval of the model.
MaxDuration == MaxTime + MaxInterval + MaxThreshold + 1

\* now.Sub(t)
Sub(now, t) == IF t = ZeroTime THEN MaxDuration ELSE now - t

\* int(x) for a float x = n / d, d > 0: truncation toward zero.
TruncDiv(n, d) == IF n >= 0 THEN n \div d ELSE -((-n) \div d)

Min(a, b) == IF a < b THEN a ELSE b

(* ----------------------------- strings -------------------------------- *)
\* s[i], counted from 0 as Go does
CharAt(s, i) == SubSeq(s, i + 1, i + 1)

\* strings.Index(s, c) and strings.LastIndex(s, c) for a one-character c
Index(s, c) ==
    IF \E i \in 0..(Len(s) - 1) : CharAt(s, i) = c
    THEN CHOOSE i \in 0..(Len(s) - 1) :
            CharAt(s, i) = c /\ \A j \in 0..(i - 1) : CharAt(s, j) # c
    ELSE -1

LastIndex(s, c) ==
    IF \E i \in 0..(Len(s) - 1) : CharAt(s, i) = c
    THEN CHOOSE i \in 0..(Len(s) - 1) :
            CharAt(s, i) = c /\ \A j \in (i + 1)..(Len(s) - 1) : CharAt(s, j) # c
    ELSE -1

\* s[:n]
Prefix(s, n) == SubSeq(s, 1, n)

\* strings.HasPrefix(s, prefix)
HasPrefix(s, prefix) == Len(s) >= Len(prefix) /\ Prefix(s, Len(prefix)) = prefix

IsSpace(c) == c \in {" ", "\t"}

\* strings.TrimSpace(s)
TrimSpace(s) ==
    IF \A i \in 0..(Len(s) - 1) : IsSpace(CharAt(s, i)) THEN ""
    ELSE LET first == CHOOSE i \in 0..(Len(s) - 1) :
                         ~IsSpace(CharAt(s, i))
                         /\ \A j \in 0..(i - 1) : IsSpace(CharAt(s, j))
             lastc == CHOOSE i \in 0..(Len(s) - 1) :
                         ~IsSpace(CharAt(s, i))
                         /\ \A j \in (i + 1)..(Len(s) - 1) : IsSpace(CharAt(s, j))
         IN  SubSeq(s, first + 1, lastc + 1)

Digits == <<"0", "1", "2", "3", "4", "5", "6", "7", "8", "9">>

\* fmt.Sprintf("%d", n)
RECURSIVE Itoa(_)
Itoa(n) ==
    IF n < 0 THEN "-" \o Itoa(-n)
    ELSE IF n < 10 THEN Digits[n + 1]
    ELSE Itoa(n \div 10) \o Digits[(n % 10) + 1]

(* ------------------------------ maps ---------------------------------- *)
MapGet(m, k, zero) == IF k \in DOMAIN m THEN m[k] ELSE zero
MapPut(m, k, v) == [x \in (DOMAIN m) \cup {k} |-> IF x = k THEN v ELSE m[x]]
MapDelete(m, ks) == [x \in (DOMAIN m) \ ks |-> m[x]]
EmptyMap == [x \in {} |-> 0]

(* --------------------------- RateLimiter ------------------------------ *)
DefaultCleanupInterval == 60 * TicksPerSecond
DefaultInactiveThreshold == 300 * TicksPerSecond

NewRateLimiter(requestsPerSecond, burstSize, cleanupInterval, inactiveThreshold) ==
    [requestsPerSecond |-> requestsPerSecond,
     burstSize         |-> burstSize,
     tokens            |-> EmptyMap,
     lastUpdate        |-> EmptyMap,
     cleanupInterval   |-> IF cleanupInterval = 0 THEN DefaultCleanupInterval
                           ELSE cleanupInterval,
     inactiveThreshold |-> IF inactiveThreshold = 0 THEN DefaultInactiveThreshold
                           ELSE inactiveThreshold,
     lastCleanup       |-> ZeroTime]

\* A limiter that never refills.
TokensToAddNone(l, elapsed) == 0

\* A grant rounded up to the next whole token.
TokensToAddRoundedUp(l, elapsed) ==
    TruncDiv(elapsed * l.requestsPerSecond + TicksPerSecond - 1, TicksPerSecond)

\* tokensToAdd := int(timeElapsed.Seconds() * float64(rl.requestsPerSecond))
TokensToAdd(l, elapsed) == TruncDiv(elapsed * l.requestsPerSecond, TicksPerSecond)

\* The clamps without the floor at 0.
ClampTokensNoFloor(l, t) == IF t > l.burstSize THEN l.burstSize ELSE t

\* The clamps without the cap at burstSize.
ClampTokensNoCap(l, t) == IF t < 0 THEN 0 ELSE t

\* The two clamps of calculateCurrentTokens, in the order the code applies them.
ClampTokens(l, t) ==
    LET capped == IF t > l.burstSize THEN l.burstSize ELSE t
    IN  IF capped < 0 THEN 0 ELSE capped

calculateCurrentTokens(l, clientID, now) ==
    IF clientID \notin DOMAIN l.lastUpdate THEN 0
    ELSE ClampTokens(l, MapGet(l.tokens, clientID, 0)
                        + TokensToAdd(l, Sub(now, l.lastUpdate[clientID])))

\* The comparison turned round: After(cutoff).
IsStaleAfter(l, clientID, now) == l.lastUpdate[clientID] > now - l.inactiveThreshold

\* A cutoff that takes the key idle for exactly inactiveThreshold as well.
IsStaleAtThreshold(l, clientID, now) ==
    l.lastUpdate[clientID] <= now - l.inactiveThreshold

\* cutoff := now.Add(-rl.inactiveThreshold); lastUpdate.Before(cutoff)
IsStale(l, clientID, now) == l.lastUpdate[clientID] < now - l.inactiveThreshold

StaleKeys(l, now) == {c \in DOMAIN l.lastUpdate : IsStale(l, c, now)}

\* A sweep that evicts nothing.
cleanupKeepsAll(l, now) == l

cleanup(l, now) ==
    [l EXCEPT !.tokens = MapDelete(l.tokens, StaleKeys(l, now)),
              !.lastUpdate = MapDelete(l.lastUpdate, StaleKeys(l, now))]

\* A sweep that is already due when cleanupInterval has just elapsed.
SweepDueAtInterval(l, now) == Sub(now, l.lastCleanup) >= l.cleanupInterval

\* if now.Sub(rl.lastCleanup) > rl.cleanupInterval
SweepDue(l, now) == Sub(now, l.lastCleanup) > l.cleanupInterval

\* Allow, periodic cleanup.  cleanup() reads the clock again: cnow >= now.
AllowSweep(l, now, cnow) ==
    IF SweepDue(l, now) THEN [cleanup(l, cnow) EXCEPT !.lastCleanup = now]
    ELSE l

\* Allow without the zero-rate check.
DeniesUnseenNever(l, clientID) == FALSE

\* Allow, the early return: an untracked client under a zero rate.
DeniesUnseen(l, clientID) ==
    clientID \notin DOMAIN l.tokens /\ l.requestsPerSecond = 0

\* else if now.Sub(rl.lastUpdate[clientID]) > rl.inactiveThreshold
IsInactive(l, clientID, now) ==
    Sub(now, MapGet(l.lastUpdate, clientID, ZeroTime)) > l.inactiveThreshold

\* A reset that renews the timestamp and keeps the tokens.
AllowInitKeepTokens(l, clientID, now) ==
    IF clientID \notin DOMAIN l.tokens
    THEN [l EXCEPT !.tokens = MapPut(l.tokens, clientID, l.burstSize),
                   !.lastUpdate = MapPut(l.lastUpdate, clientID, now)]
    ELSE IF IsInactive(l, clientID, now)
    THEN [l EXCEPT !.lastUpdate = MapPut(l.lastUpdate, clientID, now)]
    ELSE l

\* Allow, initialize or reset the client.
AllowInit(l, clientID, now) ==
    IF clientID \notin DOMAIN l.tokens \/ IsInactive(l, clientID, now)
    THEN [l EXCEPT !.tokens = MapPut(l.tokens, clientID, l.burstSize),
                   !.lastUpdate = MapPut(l.lastUpdate, clientID, now)]
    ELSE l

\* A refill that brings every tracked key up to now.
AllowRefillEveryKey(l, clientID, now) ==
    [l EXCEPT !.tokens = [c \in DOMAIN MapPut(l.tokens, clientID, 0) |->
                             calculateCurrentTokens(l, c, now)],
              !.lastUpdate = [c \in DOMAIN MapPut(l.lastUpdate, clientID, now) |-> now]]

\* Allow, calculate current tokens and update.
AllowRefill(l, clientID, now) ==
    [l EXCEPT !.tokens = MapPut(l.tokens, clientID,
                                calculateCurrentTokens(l, clientID, now)),
              !.lastUpdate = MapPut(l.lastUpdate, clientID, now)]

\* An admission that takes no token.
AllowConsumeNothing(l, clientID) == l

\* Allow, check and consume: rl.tokens[clientID]--
AllowConsume(l, clientID) ==
    [l EXCEPT !.tokens = MapPut(l.tokens, clientID, MapGet(l.tokens, clientID, 0) - 1)]

\* rl.tokens[clientID]-- as the write of a count read earlier.
StoreDecrement(l, clientID, seen) ==
    [l EXCEPT !.tokens = MapPut(l.tokens, clientID, seen - 1)]

\* The unlocked sync.RWMutex.
NoOwner == 0

\* A lock that is granted whoever holds it.
TryLockUnguarded(m) == TRUE

\* rl.mu.Lock() is granted when no thread holds the mutex m.
TryLock(m) == m = NoOwner

\* An Allow whose denial deletes the bucket.
AllowDenialClears(l, clientID, now, cnow) ==
    LET swept == AllowSweep(l, now, cnow)
    IN  IF DeniesUnseen(swept, clientID) THEN [rl |-> swept, ok |-> FALSE]
        ELSE LET filled == AllowRefill(AllowInit(swept, clientID, now), clientID, now)
             IN  IF filled.tokens[clientID] > 0
                 THEN [rl |-> AllowConsume(filled, clientID), ok |-> TRUE]
                 ELSE [rl |-> [filled EXCEPT
                                 !.tokens = MapDelete(filled.tokens, {clientID}),
                                 !.lastUpdate = MapDelete(filled.lastUpdate, {clientID})],
                       ok |-> FALSE]

\* Allow as one call under the lock: the limiter it leaves and its result.
Allow(l, clientID, now, cnow) ==
    LET swept == AllowSweep(l, now, cnow)
    IN  IF DeniesUnseen(swept, clientID) THEN [rl |-> swept, ok |-> FALSE]
        ELSE LET filled == AllowRefill(AllowInit(swept, clientID, now), clientID, now)
             IN  IF filled.tokens[clientID] > 0
                 THEN [rl |-> AllowConsume(filled, clientID), ok |-> TRUE]
                 ELSE [rl |-> filled, ok |-> FALSE]

\* A snapshot that stores the counts it recomputed.
GetMapStateStores(l, now) ==
    [l EXCEPT !.tokens = [c \in DOMAIN l.tokens |-> calculateCurrentTokens(l, c, now)]]

\* The limiter as GetMapState leaves it: it assigns to no field and to no
\* map entry.
GetMapStateLeaves(l, now) == l

\* A snapshot that reports the stored counts.
GetMapStateStored(l, now) ==
    [total_clients |-> Cardinality(DOMAIN l.tokens),
     clients |-> [c \in (DOMAIN l.tokens) \cap (DOMAIN l.lastUpdate) |->
                    [tokens |-> l.tokens[c],
                     time_since_last_update |-> Sub(now, l.lastUpdate[c]),
                     is_active |-> Sub(now, l.lastUpdate[c]) < l.inactiveThreshold]]]

\* GetMapState: the clients reported and their count.  The formatted
\* timestamps (last_update, current_time) and the echoed configuration are
\* left out.
GetMapState(l, now) ==
    [total_clients |-> Cardinality(DOMAIN l.tokens),
     clients |-> [c \in (DOMAIN l.tokens) \cap (DOMAIN l.lastUpdate) |->
                    [tokens |-> calculateCurrentTokens(l, c, now),
                     time_since_last_update |-> Sub(now, l.lastUpdate[c]),
                     is_active |-> Sub(now, l.lastUpdate[c]) < l.inactiveThreshold]]]

\* Which branch of Allow a call takes, seen from the limiter after the sweep.
AllowPath(swept, clientID, now) ==
    IF clientID \notin DOMAIN swept.tokens
    THEN (IF swept.requestsPerSecond = 0 THEN "zero" ELSE "new")
    ELSE IF IsInactive(swept, clientID, now) THEN "reset" ELSE "refill"

(* ---------------------------- middleware ------------------------------ *)
\* A resolver that keeps the port of the remote address.
GetClientIDKeepPort(r) ==
    IF r.xRealIP # "" THEN r.xRealIP
    ELSE IF r.xForwardedFor # "" THEN TrimSpace(r.xForwardedFor)
    ELSE IF r.RemoteAddr = "" THEN "unknown" ELSE r.RemoteAddr

\* A resolver that looks at X-Forwarded-For before X-Real-IP.
GetClientIDForwardedFirst(r) ==
    IF r.xForwardedFor # ""
    THEN (IF Index(r.xForwardedFor, ",") > 0
          THEN TrimSpace(Prefix(r.xForwardedFor, Index(r.xForwardedFor, ",")))
          ELSE TrimSpace(r.xForwardedFor))
    ELSE IF r.xRealIP # "" THEN r.xRealIP
    ELSE LET clientID == IF r.RemoteAddr = "" THEN "unknown" ELSE r.RemoteAddr
         IN  IF LastIndex(clientID, ":") > 0
             THEN Prefix(clientID, LastIndex(clientID, ":"))
             ELSE clientID

\* A resolver without the stand-in for an empty remote address.
GetClientIDNoStandIn(r) ==
    IF r.xRealIP # "" THEN r.xRealIP
    ELSE IF r.xForwardedFor # ""
    THEN (IF Index(r.xForwardedFor, ",") > 0
          THEN TrimSpace(Prefix(r.xForwardedFor, Index(r.xForwardedFor, ",")))
          ELSE TrimSpace(r.xForwardedFor))
    ELSE IF LastIndex(r.RemoteAddr, ":") > 0
         THEN Prefix(r.RemoteAddr, LastIndex(r.RemoteAddr, ":"))
         ELSE r.RemoteAddr

\* GetClientID: X-Real-IP, else the first X-Forwarded-For entry, else the
\* remote address without its port.
GetClientID(r) ==
    IF r.xRealIP # "" THEN r.xRealIP
    ELSE IF r.xForwardedFor # ""
    THEN (IF Index(r.xForwardedFor, ",") > 0
          THEN TrimSpace(Prefix(r.xForwardedFor, Index(r.xForwardedFor, ",")))
          ELSE TrimSpace(r.xForwardedFor))
    ELSE LET clientID == IF r.RemoteAddr = "" THEN "unknown" ELSE r.RemoteAddr
         IN  IF LastIndex(clientID, ":") > 0
             THEN Prefix(clientID, LastIndex(clientID, ":"))
             ELSE clientID

\* net.SplitHostPort(hostport): the host, and whether an error is returned.
\* The port comes after the last colon; a host in brackets is returned
\* without them; a colon in a host without brackets is an error, and so is a
\* bracket anywhere else.
SplitHostPort(hostport) ==
    LET i == LastIndex(hostport, ":")
        n == Len(hostport)
    IN  IF i < 0 THEN [host |-> "", err |-> TRUE]
        ELSE IF CharAt(hostport, 0) = "["
        THEN LET end == Index(hostport, "]")
             IN  IF end < 0 \/ end + 1 # i THEN [host |-> "", err |-> TRUE]
                 ELSE IF Index(SubSeq(hostport, 2, n), "[") >= 0
                         \/ Index(SubSeq(hostport, end + 2, n), "]") >= 0
                 THEN [host |-> "", err |-> TRUE]
                 ELSE [host |-> SubSeq(hostport, 2, end), err |-> FALSE]
        ELSE IF Index(Prefix(hostport, i), ":") >= 0
                \/ Index(hostport, "[") >= 0 \/ Index(hostport, "]") >= 0
        THEN [host |-> "", err |-> TRUE]
        ELSE [host |-> Prefix(hostport, i), err |-> FALSE]

\* getClientIP: X-Real-IP, else X-Forwarded-For up to its first comma, else
\* the host of the remote address, else the remote address.
getClientIP(r) ==
    IF r.xRealIP # "" THEN r.xRealIP
    ELSE IF r.xForwardedFor # ""
    THEN (IF Index(r.xForwardedFor, ",") >= 0
          THEN Prefix(r.xForwardedFor, Index(r.xForwardedFor, ","))
          ELSE r.xForwardedFor)
    ELSE IF ~SplitHostPort(r.RemoteAddr).err THEN SplitHostPort(r.RemoteAddr).host
    ELSE r.RemoteAddr

\* The requests served: two clients, one of them behind a proxy, on a
\* lookup, a health and a debug path.
Clients ==
    { [xRealIP |-> "", xForwardedFor |-> "", RemoteAddr |-> "1:7"],
      [xRealIP |-> "", xForwardedFor |-> "2, 9", RemoteAddr |-> "1:7"] }

Paths == {"/v1/find-country", "/debug/rate-limiter", "/debug"}

Requests ==
    { [xRealIP |-> c.xRealIP, xForwardedFor |-> c.xForwardedFor,
       RemoteAddr |-> c.RemoteAddr, Path |-> p] : c \in Clients, p \in Paths }

StatusTooManyRequests == 429

\* A ResponseWriter nothing was written to.
NewRecorder == [header |-> [h \in {} |-> ""], status |-> 0]

\* The answer of a middleware that rejects: headers limit and remaining,
\* status 429.
TooManyRequests(w, limit) ==
    [header |-> MapPut(MapPut(MapPut(w.header,
                    "Content-Type", "application/json"),
                    "X-RateLimit-Limit", limit),
                    "X-RateLimit-Remaining", "0"),
     status |-> StatusTooManyRequests]

\* The middleware hands the request on even when Allow refused it.
RateLimitMiddlewareFailOpen(l, r, w, now, cnow) ==
    LET res == Allow(l, GetClientID(r), now, cnow)
    IN  [rl |-> res.rl, allowed |-> res.ok, next |-> TRUE,
         w |-> [w EXCEPT !.header = MapPut(w.header, "X-RateLimit-Limit",
                                           Itoa(l.requestsPerSecond))]]

\* RateLimitMiddleware(rateLimiter)(next) serving r: the limiter it leaves,
\* what it wrote to w, and whether it called next.
RateLimitMiddleware(l, r, w, now, cnow) ==
    LET res == Allow(l, GetClientID(r), now, cnow)
    IN  IF ~res.ok
        THEN [rl |-> res.rl, allowed |-> FALSE, next |-> FALSE,
              w |-> TooManyRequests(w, Itoa(l.requestsPerSecond))]
        ELSE [rl |-> res.rl, allowed |-> TRUE, next |-> TRUE,
              w |-> [w EXCEPT !.header = MapPut(w.header, "X-RateLimit-Limit",
                                                Itoa(l.requestsPerSecond))]]

DebugRate == 100
DebugBurst == 200

\* debugRateLimiter := NewRateLimiter(100, 200, 1*time.Second, 1*time.Minute, 5*time.Minute)
NewDebugRateLimiter ==
    NewRateLimiter(DebugRate, DebugBurst, 60 * TicksPerSecond, 300 * TicksPerSecond)

\* A debug middleware without the path test.
DebugRateLimitMiddlewareAllPaths(dl, r, w, now, cnow) ==
    LET res == Allow(dl, GetClientID(r), now, cnow)
    IN  IF ~res.ok
        THEN [drl |-> res.rl, engaged |-> TRUE, allowed |-> FALSE, next |-> FALSE,
              w |-> TooManyRequests(w, "100")]
        ELSE [drl |-> res.rl, engaged |-> TRUE, allowed |-> TRUE, next |-> TRUE,
              w |-> [w EXCEPT !.header = MapPut(w.header, "X-RateLimit-Limit", "100")]]

\* DebugRateLimitMiddleware(rateLimiter)(next) serving r with its own
\* limiter dl; the client is resolved by the primary limiter's GetClientID.
DebugRateLimitMiddleware(dl, r, w, now, cnow) ==
    IF ~HasPrefix(r.Path, "/debug/")
    THEN [drl |-> dl, engaged |-> FALSE, allowed |-> TRUE, next |-> TRUE, w |-> w]
    ELSE LET res == Allow(dl, GetClientID(r), now, cnow)
         IN  IF ~res.ok
             THEN [drl |-> res.rl, engaged |-> TRUE, allowed |-> FALSE, next |-> FALSE,
                   w |-> TooManyRequests(w, "100")]
             ELSE [drl |-> res.rl, engaged |-> TRUE, allowed |-> TRUE, next |-> TRUE,
                   w |-> [w EXCEPT !.header = MapPut(w.header, "X-RateLimit-Limit", "100")]]

\* SetupRoutesWithMiddleware: the rate-limit part of the chain.  The regular
\* limiter is applied last, so it runs first, on every path; the debug
\* middleware is its next handler.
ServeChain(l, dl, r, now, cnow) ==
    LET outer == RateLimitMiddleware(l, r, NewRecorder, now, cnow)
        inner == IF outer.next
                 THEN DebugRateLimitMiddleware(dl, r, outer.w, cnow, cnow)
                 ELSE [drl |-> dl, engaged |-> FALSE, allowed |-> FALSE,
                       next |-> FALSE, w |-> outer.w]
    IN  [rl |-> outer.rl, drl |-> inner.drl, outer |-> outer, inner |-> inner]

(* ------------------------------ state --------------------------------- *)
VARIABLES
    clock,      \* the monotonic clock, in ticks
    rl,         \* the primary RateLimiter
    last,       \* what the latest Allow call on rl saw and answered
    fresh,      \* the calls made on the latest created key at its creation instant
    rejAt,      \* per key: when its latest Allow was rejected, else ZeroTime
    retry,      \* the latest Allow call, as a retry after a rejection
    solo,       \* a second limiter, which sees only the calls on SoloKey
    pair,       \* the latest Allow(SoloKey): its result on rl and on solo
    drl,        \* the limiter DebugRateLimitMiddleware constructed
    resp,       \* the latest request served and what the middlewares did with it
    served,     \* the number of requests served
    mu,         \* rl.mu: the thread holding the lock, or NoOwner
    thr,        \* per thread: where it is in Allow and what it has read
    req,        \* the latest request received and the client it resolved to
    sock,       \* the requests one host sent from its ports at one instant
    snap,       \* the GetMapState report made at this instant of this limiter
    readers,    \* rl.mu: the threads holding the read lock
    rpc,        \* per GetMapState thread: where it is in its call
    router,     \* what SetupRoutesWithMiddleware was given: "none" before the call
    route,      \* the latest request routed and its response
    prior,      \* the limiter as the latest call on it found it
    call,       \* the latest call on rl: its kind, key, clock readings, result
    stopped,    \* the keys whose clients have stopped calling
    win,        \* a key, the start of an interval, its admissions since then
    poll,       \* the run of quick calls on SoloKey since its bucket was exhausted
    job,        \* the threads inside Allow, one map operation at a time
    logged,     \* the latest request: its rate-limit key and its label in the log
    repo,       \* the FileRepository: data, whether data is nil, loaded
    life,       \* the repository's past: "new", "initialized" or "closed"
    rcall,      \* the latest call on the repository and what it returned
    app         \* the App: "none", "failed", "created", "serving", "closing", "stopped"

runVars == <<fresh>>
retryVars == <<rejAt, retry>>
indepVars == <<solo, pair>>
httpVars == <<drl, resp, served>>
concVars == <<mu, thr>>
idVars == <<req, sock>>
seqVarsButExt == <<last, runVars, retryVars, indepVars, httpVars>>
liveVars == <<readers, rpc>>
routeVars == <<router, route>>
histVars == <<prior, call, stopped, win, poll>>
repoVars == <<repo, life, rcall>>
moreVars == <<job, logged, repoVars, app>>
extVars == <<idVars, snap, liveVars, routeVars, histVars, moreVars>>
seqVars == <<last, runVars, retryVars, indepVars, httpVars, extVars>>
vars == <<clock, rl, last, runVars, retryVars, indepVars, httpVars, concVars, extVars>>

MaxRun == MaxBurst + 2

NumProcs == 3
MaxConcTime == 1
Procs == 1..NumProcs

\* The threads that call GetMapState, again and again.
Readers == {"r1", "r2"}

\* The threads that call Allow while GetMapState is called.
Writers == {1, 2}

\* A thread that has not entered Allow.
NoThread == [pc |-> "start", now |-> ZeroTime, seen |-> 0, ret |-> "none"]

NoCall ==
    [key |-> "", now |-> ZeroTime, ok |-> FALSE, swept |-> FALSE, path |-> "none",
     pre |-> 0, lazy |-> 0, evicted |-> FALSE]

NoRun == [key |-> "", at |-> ZeroTime, calls |-> 0, admits |-> 0]

NoRetry == [key |-> "", waited |-> -1, ok |-> FALSE]

SoloKey == "b"

\* NewFileRepository: an empty map, not loaded.
NewFileRepository ==
    [data |-> [a \in {} |-> [country |-> "", city |-> ""]], isNil |-> FALSE,
     loaded |-> FALSE]

\* No call has been made on the repository.
NoRepoCall ==
    [op |-> "none", ip |-> "", state |-> "none", before |-> "new",
     prior |-> NewFileRepository, err |-> "", panic |-> FALSE,
     location |-> [country |-> "", city |-> ""]]

\* No request has come in.
NoLogged ==
    [r |-> [xRealIP |-> "", xForwardedFor |-> "", RemoteAddr |-> ""],
     id |-> "", label |-> "", state |-> "none"]

\* A thread that is not inside Allow.
NoJob ==
    [pc |-> "start", key |-> "", now |-> ZeroTime, cnow |-> ZeroTime, todo |-> {},
     cur |-> "", deleted |-> FALSE]

NoResponse ==
    [client |-> "", path |-> "", w |-> NewRecorder, handedOn |-> NewRecorder,
     primaryAllowed |-> FALSE, primaryCharged |-> FALSE, primaryNext |-> FALSE,
     debugEngaged |-> FALSE, debugCharged |-> FALSE, reached |-> FALSE]

NoPair == [calls |-> 0, shared |-> FALSE, alone |-> FALSE]

\* Before the first call on the limiter.
NoAllow ==
    [kind |-> "none", key |-> "", now |-> ZeroTime, cnow |-> ZeroTime, ok |-> FALSE]

\* No interval under observation.
NoWindow == [key |-> "", from |-> ZeroTime, at |-> ZeroTime, admits |-> 0]

\* No run of quick calls under observation.
NoPoll ==
    [key |-> "", since |-> ZeroTime, lastAt |-> ZeroTime, ok |-> FALSE, calls |-> 0,
     longest |-> 0, renewed |-> FALSE]

NoRoute ==
    [method |-> "", path |-> "", ip |-> "", loaded |-> FALSE, handler |-> "",
     recovered |-> FALSE, limited |-> FALSE, codes |-> <<>>, body |-> "",
     location |-> [country |-> "", city |-> ""]]

NoSnap == [at |-> ZeroTime, state |-> [total_clients |-> 0, clients |-> EmptyMap]]

NoRequest ==
    [r |-> [xRealIP |-> "", xForwardedFor |-> "", RemoteAddr |-> ""],
     id |-> "", resolved |-> FALSE, ok |-> FALSE]

NoSock ==
    [host |-> "", at |-> ZeroTime, calls |-> 0, admits |-> 0, ports |-> {}, ids |-> {}]

\* The record of one Allow(clientID) call entered at now on limiter l.
CallRecord(l, clientID, now, cnow) ==
    LET swept == AllowSweep(l, now, cnow)
        path  == AllowPath(swept, clientID, now)
    IN  [key      |-> clientID,
         now      |-> now,
         ok       |-> Allow(l, clientID, now, cnow).ok,
         swept    |-> SweepDue(l, now),
         path     |-> path,
         pre      |-> IF path = "zero" THEN 0
                      ELSE AllowRefill(AllowInit(swept, clientID, now),
                                       clientID, now).tokens[clientID],
         lazy     |-> calculateCurrentTokens(swept, clientID, now),
         evicted  |-> clientID \in DOMAIN l.tokens /\ clientID \notin DOMAIN swept.tokens]

\* The run of calls on a key made at the very instant the key was created.
NextRun(run, rec) ==
    IF rec.path = "new"
    THEN [key |-> rec.key, at |-> rec.now, calls |-> 1,
          admits |-> IF rec.ok THEN 1 ELSE 0]
    ELSE IF rec.key # run.key THEN run
    ELSE IF rec.now # run.at \/ rec.path # "refill" THEN NoRun
    ELSE [run EXCEPT !.calls = Min(run.calls + 1, MaxRun),
                     !.admits = IF rec.ok THEN run.admits + 1 ELSE run.admits]

\* Everything but the primary limiter, as it is before the first call.
InitRest ==
    /\ clock = 0
    /\ last = NoCall
    /\ fresh = NoRun
    /\ rejAt = [k \in Keys |-> ZeroTime]
    /\ retry = NoRetry
    /\ solo = rl
    /\ pair = NoPair
    /\ drl = NewDebugRateLimiter
    /\ resp = NoResponse
    /\ served = 0
    /\ mu = NoOwner
    /\ thr = [p \in Procs |-> NoThread]
    /\ req = NoRequest
    /\ sock = NoSock
    /\ snap = NoSnap
    /\ readers = {}
    /\ rpc = [q \in Readers |-> "idle"]
    /\ router = "none"
    /\ route = NoRoute
    /\ prior = rl
    /\ call = NoAllow
    /\ stopped = {}
    /\ win = NoWindow
    /\ poll = NoPoll
    /\ job = [p \in Writers |-> NoJob]
    /\ logged = NoLogged
    /\ repo = NewFileRepository
    /\ life = "new"
    /\ rcall = NoRepoCall
    /\ app = "none"

Init ==
    /\ \E r \in Rates, b \in Bursts, ci \in Intervals, it \in Thresholds :
          rl = NewRateLimiter(r, b, ci, it)
    /\ InitRest

\* time passes
Tick ==
    /\ clock < MaxTime
    /\ clock' = clock + 1
    /\ UNCHANGED rl

\* rl.Allow(clientID) entered at the current instant; the clock may advance by
\* skew between Allow's reading of it and cleanup's.
AllowCall(clientID, skew) ==
    /\ clock + skew <= MaxTime
    /\ skew = 0 \/ SweepDue(rl, clock)
    /\ rl' = Allow(rl, clientID, clock, clock + skew).rl
    /\ clock' = clock + skew

(* -------- Spec: the limiter with the record of its latest call --------- *)
Next ==
    \/ Tick /\ UNCHANGED <<last, runVars, retryVars, indepVars, httpVars, concVars, extVars>>
    \/ \E clientID \in Keys, skew \in 0..MaxSkew :
          /\ AllowCall(clientID, skew)
          /\ last' = CallRecord(rl, clientID, clock, clock + skew)
          /\ UNCHANGED <<runVars, retryVars, indepVars, httpVars, concVars, extVars>>

Spec == Init /\ [][Next]_vars

(* -------- RunSpec: the limiter with the burst run of a new key --------- *)
NextBurst ==
    \/ Tick /\ UNCHANGED <<last, runVars, retryVars, indepVars, httpVars, concVars, extVars>>
    \/ \E clientID \in Keys, skew \in 0..MaxSkew :
          /\ AllowCall(clientID, skew)
          /\ fresh' = NextRun(fresh, CallRecord(rl, clientID, clock, clock + skew))
          /\ UNCHANGED <<last, retryVars, indepVars, httpVars, concVars, extVars>>

RunSpec == Init /\ [][NextBurst]_vars

(* ------ RetrySpec: the limiter with the time of each key's rejection ---- *)
NextRetry ==
    \/ Tick /\ UNCHANGED <<last, runVars, retryVars, indepVars, httpVars, concVars, extVars>>
    \/ \E clientID \in Keys, skew \in 0..MaxSkew :
          /\ AllowCall(clientID, skew)
          /\ retry' = [key    |-> clientID,
                       waited |-> IF rejAt[clientID] = ZeroTime THEN -1
                                  ELSE clock - rejAt[clientID],
                       ok     |-> Allow(rl, clientID, clock, clock + skew).ok]
          /\ rejAt' = [rejAt EXCEPT ![clientID] = IF retry'.ok THEN ZeroTime ELSE clock]
          /\ UNCHANGED <<last, runVars, indepVars, httpVars, concVars, extVars>>

RetrySpec == Init /\ [][NextRetry]_vars

(* ---- HttpSpec: requests served through the rate-limit middlewares ----- *)
MaxRequests == 2

\* one request through RateLimitMiddleware and DebugRateLimitMiddleware
Serve(r, skew) ==
    LET now   == clock
        cnow  == clock + skew
        chain == ServeChain(rl, drl, r, now, cnow)
        id    == GetClientID(r)
    IN  /\ served < MaxRequests
        /\ cnow <= MaxTime
        /\ skew = 0 \/ SweepDue(rl, now)
        /\ rl' = chain.rl
        /\ drl' = chain.drl
        /\ clock' = cnow
        /\ served' = served + 1
        /\ resp' = [client         |-> id,
                    path           |-> r.Path,
                    w              |-> chain.inner.w,
                    handedOn       |-> chain.outer.w,
                    primaryAllowed |-> Allow(rl, id, now, cnow).ok,
                    primaryCharged |-> Allow(rl, id, now, cnow).ok,
                    primaryNext    |-> chain.outer.next,
                    debugEngaged   |-> chain.inner.engaged,
                    debugCharged   |-> chain.drl # drl,
                    reached        |-> chain.inner.next]
        /\ UNCHANGED <<last, runVars, retryVars, indepVars, concVars, extVars>>

NextHttp ==
    \/ Tick /\ UNCHANGED <<last, runVars, retryVars, indepVars, httpVars, concVars, extVars>>
    \/ \E r \in Requests, skew \in 0..MaxSkew : Serve(r, skew)

\* The limiter is constructed without cleanup configuration: the defaults.
InitHttp ==
    /\ \E r \in Rates, b \in Bursts : rl = NewRateLimiter(r, b, 0, 0)
    /\ InitRest

HttpSpec == InitHttp /\ [][NextHttp]_vars

(* IndepSpec: two runs side by side.  rl serves every call; solo serves the *)
(* calls on SoloKey alone, each entered at the same instant as on rl.       *)
MaxSoloCalls == 3

\* an Allow on rl for a key other than SoloKey
OtherCall(clientID, skew) ==
    /\ clientID # SoloKey
    /\ AllowCall(clientID, skew)
    /\ UNCHANGED <<last, runVars, retryVars, indepVars, httpVars, concVars, extVars>>

\* Allow(SoloKey), made on rl and on solo
SoloCall(skew) ==
    /\ pair.calls < MaxSoloCalls
    /\ clock + skew <= MaxTime
    /\ skew = 0 \/ SweepDue(rl, clock) \/ SweepDue(solo, clock)
    /\ rl' = Allow(rl, SoloKey, clock, clock + skew).rl
    /\ solo' = Allow(solo, SoloKey, clock, clock + skew).rl
    /\ clock' = clock + skew
    /\ pair' = [calls  |-> pair.calls + 1,
                shared |-> Allow(rl, SoloKey, clock, clock + skew).ok,
                alone  |-> Allow(solo, SoloKey, clock, clock + skew).ok]
    /\ UNCHANGED <<last, runVars, retryVars, httpVars, concVars, extVars>>

NextIndep ==
    \/ Tick /\ UNCHANGED <<last, runVars, retryVars, indepVars, httpVars, concVars, extVars>>
    \/ \E clientID \in Keys, skew \in 0..MaxSkew : OtherCall(clientID, skew)
    \/ \E skew \in 0..MaxSkew : SoloCall(skew)

IndepSpec == Init /\ [][NextIndep]_vars

(* ConcSpec: NumProcs threads, each calling rl.Allow(ConcKey) once, one     *)
(* statement of Allow at a time.                                           *)
ConcKey == "a"

Goto(p, label) == [thr EXCEPT ![p].pc = label]

\* rl.mu.Lock(); now := time.Now()
Lock(p) ==
    /\ thr[p].pc = "start"
    /\ TryLock(mu)
    /\ mu' = p
    /\ thr' = [thr EXCEPT ![p].pc = "sweep", ![p].now = clock]
    /\ UNCHANGED <<clock, rl, seqVars>>

\* the periodic cleanup; cleanup() reads the clock as it is by then
Sweep(p) ==
    /\ thr[p].pc = "sweep"
    /\ rl' = AllowSweep(rl, thr[p].now, clock)
    /\ thr' = Goto(p, "init")
    /\ UNCHANGED <<clock, mu, seqVars>>

\* An early return that leaves the lock held.
InitStepKeepsLock(p) ==
    /\ thr[p].pc = "init"
    /\ IF DeniesUnseen(rl, ConcKey)
       THEN /\ thr' = [thr EXCEPT ![p].pc = "done", ![p].ret = "false"]
            /\ UNCHANGED rl
       ELSE /\ rl' = AllowInit(rl, ConcKey, thr[p].now)
            /\ thr' = Goto(p, "refill")
    /\ UNCHANGED <<clock, mu, seqVars>>

\* initialize or reset the client, or return false under a zero rate
InitStep(p) ==
    /\ thr[p].pc = "init"
    /\ IF DeniesUnseen(rl, ConcKey)
       THEN /\ thr' = [thr EXCEPT ![p].pc = "unlock", ![p].ret = "false"]
            /\ UNCHANGED rl
       ELSE /\ rl' = AllowInit(rl, ConcKey, thr[p].now)
            /\ thr' = Goto(p, "refill")
    /\ UNCHANGED <<clock, mu, seqVars>>

\* rl.tokens[clientID] = rl.calculateCurrentTokens(clientID, now)
Refill(p) ==
    /\ thr[p].pc = "refill"
    /\ rl' = AllowRefill(rl, ConcKey, thr[p].now)
    /\ thr' = Goto(p, "check")
    /\ UNCHANGED <<clock, mu, seqVars>>

\* if rl.tokens[clientID] > 0
Check(p) ==
    /\ thr[p].pc = "check"
    /\ LET seen == MapGet(rl.tokens, ConcKey, 0)
       IN  thr' = IF seen > 0
                  THEN [thr EXCEPT ![p].pc = "consume", ![p].seen = seen]
                  ELSE [thr EXCEPT ![p].pc = "unlock", ![p].seen = seen,
                                   ![p].ret = "false"]
    /\ UNCHANGED <<clock, rl, mu, seqVars>>

\* rl.tokens[clientID]--; return true
Consume(p) ==
    /\ thr[p].pc = "consume"
    /\ rl' = StoreDecrement(rl, ConcKey, thr[p].seen)
    /\ thr' = [thr EXCEPT ![p].pc = "unlock", ![p].seen = 0, ![p].ret = "true"]
    /\ UNCHANGED <<clock, mu, seqVars>>

\* the deferred rl.mu.Unlock()
Unlock(p) ==
    /\ thr[p].pc = "unlock"
    /\ mu' = NoOwner
    /\ thr' = Goto(p, "done")
    /\ UNCHANGED <<clock, rl, seqVars>>

\* time passes while the threads run
ConcTick ==
    /\ clock < MaxConcTime
    /\ Tick
    /\ UNCHANGED <<concVars, seqVars>>

NextConc ==
    \/ ConcTick
    \/ \E p \in Procs : Lock(p)
    \/ \E p \in Procs : Sweep(p)
    \/ \E p \in Procs : InitStep(p)
    \/ \E p \in Procs : Refill(p)
    \/ \E p \in Procs : Check(p)
    \/ \E p \in Procs : Consume(p)
    \/ \E p \in Procs : Unlock(p)

ConcSpec == Init /\ [][NextConc]_vars

\* The calls that have returned, and those that returned true.
Returned == {p \in Procs : thr[p].pc = "done"}
Admitted == {p \in Returned : thr[p].ret = "true"}

\* No time elapsed between the calls that have returned.
SameInstant == \A p, q \in Returned : thr[p].now = thr[q].now

(* SockSpec: requests without override headers, sent from the ports of the *)
(* hosts or with no remote address, through RateLimitMiddleware; the       *)
(* limiter has the default cleanup configuration.                          *)
MaxSockRequests == 3
Hosts == {"1"}
Ports == {"7", "8"}

\* r.RemoteAddr of a connection from port p of host h
SockAddr(h, p) == h \o ":" \o p

NoHeaders(addr) == [xRealIP |-> "", xForwardedFor |-> "", RemoteAddr |-> addr]

\* the requests host h has sent at the instant now, this one included
NextSock(h, p, now, id, ok) ==
    IF h = sock.host /\ now = sock.at
    THEN [sock EXCEPT !.calls = @ + 1,
                      !.admits = IF ok THEN @ + 1 ELSE @,
                      !.ports = @ \cup {p},
                      !.ids = @ \cup {id}]
    ELSE [host |-> h, at |-> now, calls |-> 1, admits |-> IF ok THEN 1 ELSE 0,
          ports |-> {p}, ids |-> {id}]

\* a request from port p of host h
ServeSock(h, p, skew) ==
    LET r   == NoHeaders(SockAddr(h, p))
        out == RateLimitMiddleware(rl, r, NewRecorder, clock, clock + skew)
    IN  /\ served < MaxSockRequests
        /\ clock + skew <= MaxTime
        /\ skew = 0 \/ SweepDue(rl, clock)
        /\ rl' = out.rl
        /\ clock' = clock + skew
        /\ served' = served + 1
        /\ req' = [r |-> r, id |-> GetClientID(r), resolved |-> TRUE, ok |-> out.allowed]
        /\ sock' = NextSock(h, p, clock, GetClientID(r), out.allowed)
        /\ UNCHANGED <<last, runVars, retryVars, indepVars, drl, resp, concVars, snap, liveVars, routeVars, histVars, moreVars>>

\* a request whose RemoteAddr is empty
ServeNoAddr(skew) ==
    LET r   == NoHeaders("")
        out == RateLimitMiddleware(rl, r, NewRecorder, clock, clock + skew)
    IN  /\ served < MaxSockRequests
        /\ clock + skew <= MaxTime
        /\ skew = 0 \/ SweepDue(rl, clock)
        /\ rl' = out.rl
        /\ clock' = clock + skew
        /\ served' = served + 1
        /\ req' = [r |-> r, id |-> GetClientID(r), resolved |-> TRUE, ok |-> out.allowed]
        /\ UNCHANGED <<sock, last, runVars, retryVars, indepVars, drl, resp, concVars, snap, liveVars, routeVars, histVars, moreVars>>

NextSockets ==
    \/ Tick /\ UNCHANGED <<last, runVars, retryVars, indepVars, httpVars, concVars, extVars>>
    \/ \E h \in Hosts, p \in Ports, skew \in 0..MaxSkew : ServeSock(h, p, skew)
    \/ \E skew \in 0..MaxSkew : ServeNoAddr(skew)

SockSpec == InitHttp /\ [][NextSockets]_vars

(* IdSpec: GetClientID applied to requests of every shape.                 *)
RealIPs == {"", "9", " 9"}
ForwardedFors == {"", "2", "2, 9", " 2 ,9", ",2", " ", "2,", "\t2\t"}
RemoteAddrs == {"", "1:7", "1:8", ":7", "1", "a:b:7"}

AllRequests ==
    { [xRealIP |-> x, xForwardedFor |-> f, RemoteAddr |-> a] :
         x \in RealIPs, f \in ForwardedFors, a \in RemoteAddrs }

\* a request arrives
Receive(r) ==
    /\ req = NoRequest \/ req.resolved
    /\ req' = [r |-> r, id |-> "", resolved |-> FALSE, ok |-> FALSE]
    /\ UNCHANGED <<clock, rl, sock, snap, liveVars, seqVarsButExt, concVars, routeVars, histVars, moreVars>>

\* clientID := rateLimiter.GetClientID(r)
Resolve ==
    /\ req # NoRequest
    /\ ~req.resolved
    /\ req' = [req EXCEPT !.id = GetClientID(req.r), !.resolved = TRUE]
    /\ UNCHANGED <<clock, rl, sock, snap, liveVars, seqVarsButExt, concVars, routeVars, histVars, moreVars>>

NextId ==
    \/ \E r \in AllRequests : Receive(r)
    \/ Resolve

IdSpec == InitHttp /\ [][NextId]_vars

(* SnapSpec: Allow calls with GetMapState calls between them.  rl serves   *)
(* both; solo serves the same Allow calls and no GetMapState.              *)
\* rl.Allow(clientID), made on rl and on solo
BothCall(clientID, skew) ==
    LET shared == Allow(rl, clientID, clock, clock + skew)
        alone  == Allow(solo, clientID, clock, clock + skew)
    IN  /\ clock + skew <= MaxTime
        /\ skew = 0 \/ SweepDue(rl, clock) \/ SweepDue(solo, clock)
        /\ rl' = shared.rl
        /\ solo' = alone.rl
        /\ clock' = clock + skew
        /\ pair' = [calls |-> 1, shared |-> shared.ok, alone |-> alone.ok]
        /\ snap' = NoSnap
        /\ UNCHANGED <<last, runVars, retryVars, httpVars, concVars, idVars, liveVars, routeVars, histVars, moreVars>>

\* rl.GetMapState()
Snapshot ==
    /\ rl' = GetMapStateLeaves(rl, clock)
    /\ snap' = [at |-> clock, state |-> GetMapState(rl, clock)]
    /\ UNCHANGED <<clock, last, runVars, retryVars, indepVars, httpVars, concVars, idVars, liveVars, routeVars, histVars, moreVars>>

\* time passes; the report is of an earlier instant now
SnapTick ==
    /\ Tick
    /\ snap' = NoSnap
    /\ UNCHANGED <<last, runVars, retryVars, indepVars, httpVars, concVars, idVars, liveVars, routeVars, histVars, moreVars>>

NextSnap ==
    \/ SnapTick
    \/ \E clientID \in Keys, skew \in 0..MaxSkew : BothCall(clientID, skew)
    \/ Snapshot

SnapSpec == Init /\ [][NextSnap]_vars

(* LiveSpec: the Writers call Allow once each while the Readers call       *)
(* GetMapState in a stream, on the sync.RWMutex rl.mu: a writer that has   *)
(* called Lock keeps new readers out and waits for the readers inside to   *)
(* leave.  Every thread that can take a step eventually takes one.         *)
otherVars == <<last, runVars, retryVars, indepVars, httpVars, idVars, snap, routeVars, histVars, moreVars>>

\* rl.mu.Lock() called: the writer is announced to the readers
LockW(p) ==
    /\ thr[p].pc = "start"
    /\ TryLock(mu)
    /\ mu' = p
    /\ thr' = Goto(p, "drain")
    /\ UNCHANGED <<clock, rl, liveVars, otherVars>>

\* rl.mu.Lock() returns when no reader is left; now := time.Now()
Drained(p) ==
    /\ thr[p].pc = "drain"
    /\ readers = {}
    /\ thr' = [thr EXCEPT ![p].pc = "sweep", ![p].now = clock]
    /\ UNCHANGED <<clock, rl, mu, liveVars, otherVars>>

\* a thread calls GetMapState
RCall(q) ==
    /\ rpc[q] = "idle"
    /\ rpc' = [rpc EXCEPT ![q] = "rlock"]
    /\ UNCHANGED <<clock, rl, concVars, readers, otherVars>>

\* rl.mu.RLock() returns when no writer is announced
RLock(q) ==
    /\ rpc[q] = "rlock"
    /\ mu = NoOwner
    /\ readers' = readers \cup {q}
    /\ rpc' = [rpc EXCEPT ![q] = "read"]
    /\ UNCHANGED <<clock, rl, concVars, otherVars>>

\* the body of GetMapState
ReadState(q) ==
    /\ rpc[q] = "read"
    /\ rl' = GetMapStateLeaves(rl, clock)
    /\ rpc' = [rpc EXCEPT ![q] = "runlock"]
    /\ UNCHANGED <<clock, concVars, readers, otherVars>>

\* the deferred rl.mu.RUnlock()
RUnlock(q) ==
    /\ rpc[q] = "runlock"
    /\ readers' = readers \ {q}
    /\ rpc' = [rpc EXCEPT ![q] = "idle"]
    /\ UNCHANGED <<clock, rl, concVars, otherVars>>

WriterStep(p) ==
    \/ LockW(p)
    \/ Drained(p)
    \/ Sweep(p)
    \/ InitStep(p)
    \/ Refill(p)
    \/ Check(p)
    \/ Consume(p)
    \/ Unlock(p)

ReaderStep(q) ==
    \/ RLock(q)
    \/ ReadState(q)
    \/ RUnlock(q)

NextLive ==
    \/ \E p \in Writers : LockW(p)
    \/ \E p \in Writers : Drained(p)
    \/ \E p \in Writers : Sweep(p)
    \/ \E p \in Writers : InitStep(p)
    \/ \E p \in Writers : Refill(p)
    \/ \E p \in Writers : Check(p)
    \/ \E p \in Writers : Consume(p)
    \/ \E p \in Writers : Unlock(p)
    \/ \E q \in Readers : RCall(q)
    \/ \E q \in Readers : RLock(q)
    \/ \E q \in Readers : ReadState(q)
    \/ \E q \in Readers : RUnlock(q)

LiveSpec ==
    /\ InitHttp
    /\ [][NextLive]_vars
    /\ \A p \in Writers : WF_vars(WriterStep(p))
    /\ \A q \in Readers : WF_vars(ReaderStep(q))

(* SignedSpec: the calls of Spec on a limiter constructed with any signs   *)
(* of requestsPerSecond and burstSize.                                     *)
SignedRates == {-MaxRate, -1, 0, 1}
SignedBursts == {-MaxBurst, -1, 0, 1, MaxBurst}

InitSigned ==
    /\ \E r \in SignedRates, b \in SignedBursts, ci \in Intervals, it \in Thresholds :
          rl = NewRateLimiter(r, b, ci, it)
    /\ InitRest

SignedSpec == InitSigned /\ [][Next]_vars

(* ============================== claims ================================= *)

(* C1: a key created by Allow is admitted on exactly the first burstSize    *)
(* calls made at the instant of its creation: after n such calls            *)
(* min(n, burstSize) were admitted, so call burstSize + 1 and every further *)
(* immediate call is rejected.                                              *)
C1_BurstAdmitsExactlyB ==
    fresh.key # "" => fresh.admits = Min(fresh.calls, rl.burstSize)

C1_Witness ==
    /\ fresh.key # ""
    /\ rl.burstSize = MaxBurst
    /\ fresh.calls = MaxBurst + 2
    /\ fresh.admits = MaxBurst

(* C2 as claimed: threads calling Allow on one key of a new limiter, with   *)
(* no time elapsing between the calls, are admitted min(N, burstSize)       *)
(* times, N the number of calls that returned, in every interleaving.       *)
C2_ConcurrentAdmits_Claimed ==
    SameInstant => Cardinality(Admitted) = Min(Cardinality(Returned), rl.burstSize)

(* C2 amended: the same under a rate other than 0; and every admission      *)
(* took one token of its own: with the lock free, the stored count is       *)
(* burstSize less the number of admissions.                                 *)
C2_ConcurrentAdmits ==
    (rl.requestsPerSecond # 0 /\ SameInstant) =>
        /\ Cardinality(Admitted) = Min(Cardinality(Returned), rl.burstSize)
        /\ (mu = NoOwner /\ ConcKey \in DOMAIN rl.tokens
              /\ \A p \in Procs : thr[p].pc \in {"start", "done"}) =>
                 rl.tokens[ConcKey] = rl.burstSize - Cardinality(Admitted)

C2_Witness ==
    /\ rl.requestsPerSecond # 0
    /\ rl.burstSize = MaxBurst
    /\ Returned = Procs
    /\ SameInstant
    /\ Cardinality(Admitted) = MaxBurst
    /\ rl.tokens[ConcKey] = 0

(* C3: with requestsPerSecond = 0 every Allow call, at any time and for any *)
(* key, returns false.                                                      *)
C3_ZeroRateDeniesAll ==
    (rl.requestsPerSecond = 0 /\ last.key # "") => ~last.ok

C3_Witness ==
    /\ rl.requestsPerSecond = 0
    /\ rl.burstSize = MaxBurst
    /\ last.key # ""
    /\ last.now >= 1
    /\ ~last.ok

(* C4: the stored token count of every tracked key lies in 0..burstSize.    *)
C4_TokensWithinBounds ==
    \A c \in DOMAIN rl.tokens : 0 <= rl.tokens[c] /\ rl.tokens[c] <= rl.burstSize

C4_Witness ==
    /\ last.path = "refill"
    /\ last.now >= 1
    /\ rl.burstSize >= 1
    /\ last.pre = rl.burstSize
    /\ \E c \in DOMAIN rl.tokens : c # last.key /\ rl.tokens[c] = 0

(* C5 as claimed: with a rate R > 0, an Allow made at least 1/R seconds     *)
(* after the key's rejection is admitted.                                   *)
C5_RefillAfterWait_Claimed ==
    (/\ rl.requestsPerSecond > 0
     /\ retry.waited # -1
     /\ retry.waited * rl.requestsPerSecond >= TicksPerSecond) => retry.ok

(* C5 amended: with a rate R > 0 and a burst of at least 1, an Allow made   *)
(* at least 1/R seconds after the key's rejection is admitted.              *)
C5_RefillAfterWait ==
    (/\ rl.requestsPerSecond > 0
     /\ rl.burstSize >= 1
     /\ retry.waited # -1
     /\ retry.waited * rl.requestsPerSecond >= TicksPerSecond) => retry.ok

C5_Witness ==
    /\ rl.requestsPerSecond = 1
    /\ rl.burstSize >= 1
    /\ retry.waited = TicksPerSecond
    /\ retry.ok

(* C6: every Allow on a key returns the same with the calls on the other    *)
(* keys interleaved (rl) as without them (solo).                            *)
C6_Independence == pair.shared = pair.alone

(* C7: no tracked key (none that Snapshot lists) was idle beyond            *)
(* inactiveThreshold when the latest sweep ran, and an Allow on a key that  *)
(* is untracked, the caller's own key evicted by the call's sweep included, *)
(* creates it with burstSize tokens before the decrement.                   *)
C7_EvictedThenFresh ==
    /\ rl.lastCleanup # ZeroTime =>
          \A c \in DOMAIN GetMapState(rl, clock).clients :
              rl.lastUpdate[c] >= rl.lastCleanup - rl.inactiveThreshold
    /\ (last.evicted \/ last.path = "new") =>
          last.path = "new" /\ last.pre = rl.burstSize

C7_Witness ==
    /\ last.evicted
    /\ last.swept
    /\ last.ok
    /\ last.pre = rl.burstSize
    /\ \E c \in Keys : c \notin DOMAIN GetMapState(rl, clock).clients

(* C8: RateLimitMiddleware calls the next handler if and only if Allow      *)
(* returned true; a rejected request is answered 429 with X-RateLimit-Limit *)
(* the configured requestsPerSecond and X-RateLimit-Remaining 0, and never  *)
(* reaches the handlers behind it; an admitted request is handed on with    *)
(* X-RateLimit-Limit set, no X-RateLimit-Remaining and no status written.   *)
C8_NextIffAllowed ==
    resp.client # "" =>
        /\ resp.primaryNext <=> resp.primaryAllowed
        /\ ~resp.primaryAllowed =>
              /\ resp.handedOn.status = StatusTooManyRequests
              /\ resp.handedOn.header["X-RateLimit-Limit"] = Itoa(rl.requestsPerSecond)
              /\ resp.handedOn.header["X-RateLimit-Remaining"] = "0"
              /\ resp.w = resp.handedOn
              /\ ~resp.debugEngaged
              /\ ~resp.reached
        /\ resp.primaryAllowed =>
              /\ resp.handedOn.status = 0
              /\ DOMAIN resp.handedOn.header = {"X-RateLimit-Limit"}
              /\ resp.handedOn.header["X-RateLimit-Limit"] = Itoa(rl.requestsPerSecond)

C8_Witness ==
    /\ resp.client = "2"
    /\ rl.requestsPerSecond = MaxRate
    /\ ~resp.primaryAllowed
    /\ ~resp.primaryNext
    /\ resp.w.status = StatusTooManyRequests
    /\ rl.tokens["2"] = 0

(* C9: a request under the /debug/ prefix is charged to the debug limiter   *)
(* only: it takes no token from the primary limiter's bucket of its client  *)
(* and the primary limiter cannot reject it.                                *)
C9_DebugNotChargedToPrimary ==
    (resp.client # "" /\ HasPrefix(resp.path, "/debug/")) =>
        /\ ~resp.primaryCharged
        /\ resp.primaryNext

(* C11: requests without override headers from the ports of one host       *)
(* resolve to one client id and draw from one bucket: of those sent at one  *)
(* instant at most burstSize are admitted.                                  *)
C11_PortsShareBucket ==
    sock.host # "" =>
        /\ Cardinality(sock.ids) = 1
        /\ sock.admits <= rl.burstSize

C11_Witness ==
    /\ sock.ports = Ports
    /\ rl.burstSize = MaxBurst
    /\ sock.calls = MaxBurst + 1
    /\ sock.admits = MaxBurst
    /\ ~req.ok

(* The resolution order in the words of its description: the text before   *)
(* the first comma, a text without its leading and trailing blanks, a text  *)
(* without its last colon and what follows it.                              *)
RECURSIVE BeforeComma(_)
BeforeComma(s) ==
    IF Len(s) = 0 \/ SubSeq(s, 1, 1) = "," THEN ""
    ELSE SubSeq(s, 1, 1) \o BeforeComma(SubSeq(s, 2, Len(s)))

RECURSIVE TrimLeft(_)
TrimLeft(s) ==
    IF Len(s) = 0 THEN ""
    ELSE IF SubSeq(s, 1, 1) \in {" ", "\t"} THEN TrimLeft(SubSeq(s, 2, Len(s)))
    ELSE s

RECURSIVE TrimRight(_)
TrimRight(s) ==
    IF Len(s) = 0 THEN ""
    ELSE IF SubSeq(s, Len(s), Len(s)) \in {" ", "\t"}
    THEN TrimRight(SubSeq(s, 1, Len(s) - 1))
    ELSE s

Trimmed(s) == TrimRight(TrimLeft(s))

RECURSIVE HasColon(_)
HasColon(s) ==
    /\ Len(s) > 0
    /\ SubSeq(s, 1, 1) = ":" \/ HasColon(SubSeq(s, 2, Len(s)))

RECURSIVE WithoutPort(_)
WithoutPort(s) ==
    IF ~HasColon(s) THEN s
    ELSE IF SubSeq(s, Len(s), Len(s)) = ":" THEN SubSeq(s, 1, Len(s) - 1)
    ELSE WithoutPort(SubSeq(s, 1, Len(s) - 1))

\* The only colon of s is its first character.
OnlyLeadingColon(s) ==
    Len(s) > 0 /\ SubSeq(s, 1, 1) = ":" /\ ~HasColon(SubSeq(s, 2, Len(s)))

(* C12 as claimed: the resolver returns a non-empty X-Real-IP as it is;     *)
(* else, of a non-empty X-Forwarded-For, the trimmed text before the first  *)
(* comma; else the remote address without its last colon and the port       *)
(* after it; for every request.                                             *)
C12_FirstMatchWins_Claimed ==
    req.resolved =>
        req.id = IF req.r.xRealIP # "" THEN req.r.xRealIP
                 ELSE IF req.r.xForwardedFor # ""
                 THEN Trimmed(BeforeComma(req.r.xForwardedFor))
                 ELSE WithoutPort(req.r.RemoteAddr)

(* C12 amended: the same, but an X-Forwarded-For that begins with a comma   *)
(* is returned whole, trimmed; an empty remote address gives "unknown";     *)
(* and a remote address whose only colon is its first character is          *)
(* returned as it is.                                                       *)
C12_FirstMatchWins ==
    req.resolved =>
        req.id = IF req.r.xRealIP # "" THEN req.r.xRealIP
                 ELSE IF req.r.xForwardedFor # ""
                 THEN (IF SubSeq(req.r.xForwardedFor, 1, 1) = ","
                       THEN Trimmed(req.r.xForwardedFor)
                       ELSE Trimmed(BeforeComma(req.r.xForwardedFor)))
                 ELSE IF req.r.RemoteAddr = "" THEN "unknown"
                 ELSE IF OnlyLeadingColon(req.r.RemoteAddr) THEN req.r.RemoteAddr
                 ELSE WithoutPort(req.r.RemoteAddr)

C12_Witness ==
    /\ req.resolved
    /\ req.r.xRealIP = ""
    /\ req.r.xForwardedFor = " 2 ,9"
    /\ req.r.RemoteAddr = "1:7"
    /\ req.id = "2"

(* C13 as claimed: a request without override headers and with an empty     *)
(* remote address resolves to the empty string.                             *)
C13_EmptyAddrKey_Claimed ==
    (req.resolved /\ req.r = NoHeaders("")) => req.id = ""

(* C13 amended: such a request resolves to "unknown", and "unknown" is a    *)
(* key like any other: the limiter tracks it once Allow created it, and     *)
(* never tracks the empty string for it.                                    *)
C13_EmptyAddrKey ==
    (req.resolved /\ req.r = NoHeaders("")) =>
        /\ req.id = "unknown"
        /\ "" \notin DOMAIN rl.tokens
        /\ rl.requestsPerSecond # 0 => "unknown" \in DOMAIN rl.tokens
        /\ req.ok => rl.tokens["unknown"] < rl.burstSize

C13_Witness ==
    /\ req.resolved
    /\ req.r = NoHeaders("")
    /\ req.ok
    /\ rl.burstSize = MaxBurst
    /\ rl.tokens["unknown"] = MaxBurst - 1
    /\ "1" \in DOMAIN rl.tokens

(* C14: GetMapState changes nothing of the limiter: the limiter that also   *)
(* serves GetMapState calls has the tracked keys, stored tokens, lastUpdate *)
(* and lastCleanup of the one that serves the Allow calls alone, and every  *)
(* Allow returns the same on both.                                          *)
C14_SnapshotReadOnly ==
    /\ rl = solo
    /\ pair.shared = pair.alone

C14_Witness ==
    /\ snap.at >= 1
    /\ \E c \in DOMAIN snap.state.clients :
          /\ snap.state.clients[c].tokens > rl.tokens[c]
          /\ snap.state.clients[c].time_since_last_update >= 1
    /\ rl = solo

(* C15: for every tracked key GetMapState reports the count                 *)
(* clamp(stored + floor(elapsed seconds * rate), 0, burstSize), reports     *)
(* is_active exactly when the time since lastUpdate is less than            *)
(* inactiveThreshold, and reports as total_clients the number of keys it    *)
(* lists.                                                                   *)
C15_SnapshotReports ==
    snap.at # ZeroTime =>
        /\ DOMAIN snap.state.clients = DOMAIN rl.tokens
        /\ snap.state.total_clients = Cardinality(DOMAIN snap.state.clients)
        /\ \A c \in DOMAIN rl.tokens :
              LET elapsed == snap.at - rl.lastUpdate[c]
                  grown   == rl.tokens[c]
                                + (elapsed * rl.requestsPerSecond) \div TicksPerSecond
                  entry   == snap.state.clients[c]
              IN  /\ elapsed >= 0
                  /\ entry.tokens = IF grown > rl.burstSize THEN rl.burstSize
                                    ELSE IF grown < 0 THEN 0 ELSE grown
                  /\ entry.time_since_last_update = elapsed
                  /\ entry.is_active <=> elapsed < rl.inactiveThreshold

C15_Witness ==
    /\ snap.at # ZeroTime
    /\ snap.state.total_clients = 2
    /\ \E c \in DOMAIN snap.state.clients :
          /\ ~snap.state.clients[c].is_active
          /\ snap.state.clients[c].time_since_last_update = rl.inactiveThreshold
          /\ snap.state.clients[c].tokens > rl.tokens[c]
    /\ \E c \in DOMAIN snap.state.clients :
          /\ snap.state.clients[c].is_active
          /\ snap.state.clients[c].tokens = rl.tokens[c]

(* C16: DebugRateLimitMiddleware engages only for paths under /debug/: a    *)
(* request on any other path that reaches it is handed to the next handler  *)
(* with the debug limiter not called and unchanged and no header added; a   *)
(* request under /debug/ that reaches it is put to the debug limiter.       *)
C16_DebugOnlyUnderPrefix ==
    (resp.client # "" /\ resp.primaryNext) =>
        IF HasPrefix(resp.path, "/debug/")
        THEN resp.debugEngaged
        ELSE /\ ~resp.debugEngaged
             /\ ~resp.debugCharged
             /\ resp.w = resp.handedOn
             /\ resp.reached

C16_Witness ==
    /\ resp.path = "/debug"
    /\ resp.primaryNext
    /\ resp.reached
    /\ ~resp.debugEngaged
    /\ DOMAIN drl.tokens # {}
    /\ resp.client \in DOMAIN drl.tokens

(* C17: every Allow call returns and every GetMapState call returns: no     *)
(* path of Allow keeps the lock, and the readers cannot keep a writer out   *)
(* for ever.                                                                *)
C17_CallsReturn ==
    /\ \A p \in Writers : <>(thr[p].pc = "done")
    /\ \A q \in Readers : (rpc[q] = "rlock") ~> (rpc[q] = "idle")

C17_Witness ==
    /\ \E p \in Writers : thr[p].pc = "drain"
    /\ \E q \in Readers : rpc[q] = "read"
    /\ \E q \in Readers : rpc[q] = "rlock"
    /\ \E p \in Writers : thr[p].pc = "done" /\ thr[p].ret = "false"
    /\ rl.requestsPerSecond = 0

(* C18: whatever the signs of requestsPerSecond and burstSize, no negative  *)
(* count surfaces: between Allow calls every stored count is >= 0, and      *)
(* every count GetMapState would report is >= 0.                            *)
C18_NoNegativeTokens ==
    /\ \A c \in DOMAIN rl.tokens : rl.tokens[c] >= 0
    /\ \A c \in DOMAIN GetMapState(rl, clock).clients :
          GetMapState(rl, clock).clients[c].tokens >= 0

C18_Witness ==
    /\ rl.requestsPerSecond < 0
    /\ rl.burstSize >= 1
    /\ last.path = "refill"
    /\ ~last.ok
    /\ \E c \in DOMAIN rl.tokens :
          /\ c # last.key
          /\ rl.tokens[c] + TruncDiv((clock - rl.lastUpdate[c]) * rl.requestsPerSecond,
                                     TicksPerSecond) < 0
          /\ GetMapState(rl, clock).clients[c].tokens = 0

(* RouteSpec: SetupRoutesWithMiddleware called once, with a limiter or with *)
(* nil, and requests served by the handler it returned.                     *)
StatusOK == 200
StatusBadRequest == 400
StatusNotFound == 404
StatusMethodNotAllowed == 405
StatusInternalServerError == 500
StatusServiceUnavailable == 503

\* strings.Contains(s, substr)
Contains(s, substr) ==
    \E i \in 0..(Len(s) - Len(substr)) : SubSeq(s, i + 1, i + Len(substr)) = substr

\* The ip parameters net.ParseIP accepts, among those sent.
ParsesAsIP == {"8", "1"}

\* The records of the repository, by address.
RepositoryData == [a \in {"8"} |-> [country |-> "US", city |-> "NYC"]]

NoLocation == [country |-> "", city |-> ""]

\* IPValidator.ValidateIP(ip): the error message, "" for nil
ValidateIP(ip) ==
    IF ip = "" THEN "IP address cannot be empty"
    ELSE IF ip \notin ParsesAsIP THEN "invalid IP address format: " \o ip
    ELSE ""

\* FileRepository.FindLocation(ip)
RepositoryFindLocation(ip, loaded) ==
    IF ~loaded THEN [location |-> NoLocation, err |-> "repository not initialized"]
    ELSE IF ip \notin DOMAIN RepositoryData
    THEN [location |-> NoLocation, err |-> "location not found for IP: " \o ip]
    ELSE [location |-> RepositoryData[ip], err |-> ""]

\* Location.ValidateLocation()
ValidateLocation(location) ==
    IF TrimSpace(location.country) = "" THEN "country cannot be empty"
    ELSE IF TrimSpace(location.city) = "" THEN "city cannot be empty"
    ELSE ""

\* IPServiceImpl.FindLocation(ip)
FindLocation(ip, loaded) ==
    IF ValidateIP(ip) # ""
    THEN [location |-> NoLocation, err |-> "invalid IP address: " \o ValidateIP(ip)]
    ELSE LET found == RepositoryFindLocation(ip, loaded)
         IN  IF found.err # ""
             THEN [location |-> NoLocation,
                   err |-> "failed to find location: " \o found.err]
             ELSE IF ValidateLocation(found.location) # ""
             THEN [location |-> NoLocation,
                   err |-> "invalid location data: "
                           \o ValidateLocation(found.location)]
             ELSE [location |-> found.location, err |-> ""]

\* IPHandler.sendError: one WriteHeader, then the message
sendError(message, statusCode) ==
    [codes |-> <<statusCode>>, body |-> message, location |-> NoLocation]

\* IPHandler.sendSuccess: one WriteHeader, then the location
sendSuccess(location) ==
    [codes |-> <<StatusOK>>, body |-> "", location |-> location]

\* IPHandler.FindCountry: the WriteHeader calls it makes and what it writes
FindCountry(r, loaded) ==
    IF r.Method # "GET" THEN sendError("Method not allowed", StatusMethodNotAllowed)
    ELSE IF r.ip = ""
    THEN sendError("Missing required parameter: ip", StatusBadRequest)
    ELSE LET res == FindLocation(r.ip, loaded)
         IN  IF res.err # ""
             THEN IF Contains(res.err, "location not found")
                  THEN sendError("Location not found for the provided IP address",
                                 StatusNotFound)
                  ELSE IF Contains(res.err, "invalid IP address")
                  THEN sendError("Invalid IP address format", StatusBadRequest)
                  ELSE IF Contains(res.err, "invalid location data")
                  THEN sendError("Invalid location data", StatusInternalServerError)
                  ELSE sendError("Internal server error", StatusInternalServerError)
             ELSE sendSuccess(res.location)

\* IPHandler.HealthCheck
HealthCheck(loaded) ==
    IF ~loaded
    THEN [codes |-> <<StatusServiceUnavailable>>, body |-> "unhealthy",
          location |-> NoLocation]
    ELSE [codes |-> <<StatusOK>>, body |-> "healthy", location |-> NoLocation]

\* The mux of SetupRoutes: the handler the path is routed to, and its answer.
ServeMux(r, loaded) ==
    IF r.Path = "/v1/find-country"
    THEN [handler |-> "FindCountry", w |-> FindCountry(r, loaded)]
    ELSE IF r.Path = "/health"
    THEN [handler |-> "HealthCheck", w |-> HealthCheck(loaded)]
    ELSE [handler |-> "NotFound", w |-> sendError("Not found", StatusNotFound)]

\* RecoveryMiddleware's answer to a panic below it.
Recovered ==
    [codes |-> <<StatusInternalServerError>>, body |-> "Internal server error",
     location |-> NoLocation]

Methods == {"GET", "POST"}
RoutePaths == {"/v1/find-country", "/health", "/"}
IPParams == {"", "8", "1", "x", "location not found"}

RouteRequests ==
    { [xRealIP |-> "", xForwardedFor |-> "", RemoteAddr |-> "1:7",
       Method |-> m, Path |-> p, ip |-> a] :
         m \in Methods, p \in RoutePaths, a \in IPParams }

\* SetupRoutesWithMiddleware(rateLimiter): with rl, or with nil
SetupRoutesWithMiddleware(isNil) ==
    /\ router = "none"
    /\ router' = IF isNil THEN "nil" ELSE "limiter"
    /\ UNCHANGED <<clock, rl, route, seqVarsButExt, concVars, idVars, snap, liveVars, histVars, moreVars>>

\* One request through the handler SetupRoutesWithMiddleware(rl) returned.
ServeRoute(r, loaded, skew) ==
    \E chain \in {ServeChain(rl, drl, r, clock, clock + skew)} :
        /\ router = "limiter"
        /\ served < MaxRequests
        /\ clock + skew <= MaxTime
        /\ skew = 0 \/ SweepDue(rl, clock)
        /\ rl' = chain.rl
        /\ drl' = chain.drl
        /\ clock' = clock + skew
        /\ served' = served + 1
        /\ route' = IF chain.inner.next
                     THEN [method    |-> r.Method,
                           path      |-> r.Path,
                           ip        |-> r.ip,
                           loaded    |-> loaded,
                           handler   |-> ServeMux(r, loaded).handler,
                           recovered |-> FALSE,
                           limited   |-> FALSE,
                           codes     |-> ServeMux(r, loaded).w.codes,
                           body      |-> ServeMux(r, loaded).w.body,
                           location  |-> ServeMux(r, loaded).w.location]
                     ELSE [method    |-> r.Method,
                           path      |-> r.Path,
                           ip        |-> r.ip,
                           loaded    |-> loaded,
                           handler   |-> "",
                           recovered |-> FALSE,
                           limited   |-> TRUE,
                           codes     |-> <<chain.inner.w.status>>,
                           body      |-> "",
                           location  |-> NoLocation]
        /\ UNCHANGED <<router, resp, last, runVars, retryVars, indepVars, concVars,
                       idVars, snap, liveVars, histVars, moreVars>>

\* One request through the handler SetupRoutesWithMiddleware(nil) returned:
\* RateLimitMiddleware's rateLimiter.Allow locks the mutex of a nil
\* *RateLimiter, a panic, which RecoveryMiddleware answers.
ServeRouteNil(r, loaded) ==
    /\ router = "nil"
    /\ served < MaxRequests
    /\ served' = served + 1
    /\ route' = [method    |-> r.Method,
                 path      |-> r.Path,
                 ip        |-> r.ip,
                 loaded    |-> loaded,
                 handler   |-> "",
                 recovered |-> TRUE,
                 limited   |-> FALSE,
                 codes     |-> Recovered.codes,
                 body      |-> Recovered.body,
                 location  |-> Recovered.location]
    /\ UNCHANGED <<clock, rl, router, drl, resp, last, runVars, retryVars, indepVars,
                   concVars, idVars, snap, liveVars, histVars, moreVars>>

NextRoute ==
    \/ \E isNil \in BOOLEAN : SetupRoutesWithMiddleware(isNil)
    \/ \E r \in RouteRequests, loaded \in BOOLEAN, skew \in 0..MaxSkew :
          ServeRoute(r, loaded, skew)
    \/ \E r \in RouteRequests, loaded \in BOOLEAN : ServeRouteNil(r, loaded)

RouteSpec == InitHttp /\ [][NextRoute]_vars

\* What the service did with the ip parameter: rejected it as no IP address,
\* failed to look it up, found no record for it, or found its record.
ServiceOutcome(ip, loaded) ==
    IF ip \notin ParsesAsIP THEN "invalid IP"
    ELSE IF ~loaded THEN "failed"
    ELSE IF ip \notin DOMAIN RepositoryData THEN "location not found"
    ELSE "success"

\* The status the outcome of a find-country request is mapped to.
StatusOf(method, ip, loaded) ==
    IF method # "GET" THEN StatusMethodNotAllowed
    ELSE IF ip = "" THEN StatusBadRequest
    ELSE IF ServiceOutcome(ip, loaded) = "invalid IP" THEN StatusBadRequest
    ELSE IF ServiceOutcome(ip, loaded) = "location not found" THEN StatusNotFound
    ELSE IF ServiceOutcome(ip, loaded) = "success" THEN StatusOK
    ELSE StatusInternalServerError

(* C19: a request FindCountry handles is answered with exactly one status:  *)
(* 405 for a method other than GET; else 400 for a missing ip parameter or  *)
(* an ip the service rejects as invalid; 404 when the service finds no      *)
(* record; 500 for any other service error; 200 with the location on        *)
(* success.                                                                 *)
C19_StatusMapping ==
    route.handler = "FindCountry" =>
        /\ route.codes = <<StatusOf(route.method, route.ip, route.loaded)>>
        /\ route.codes = <<StatusOK>> => route.location = RepositoryData[route.ip]

(* C20: a request to the handler SetupRoutesWithMiddleware(nil) returned    *)
(* reaches the routed handler and gets that handler's answer, with no rate  *)
(* limiting.                                                                *)
C20_NilLimiterStillWorks ==
    LET routed == ServeMux([Method |-> route.method, Path |-> route.path,
                            ip |-> route.ip], route.loaded)
    IN  (router = "nil" /\ route.path # "") =>
            /\ route.handler = routed.handler
            /\ ~route.recovered
            /\ ~route.limited
            /\ route.codes = routed.w.codes

(* CallSpec: Allow and GetMapState calls on rl, with the limiter as the     *)
(* latest call found it (prior) beside the limiter as the call left it.     *)
CallAllow(clientID, skew) ==
    /\ AllowCall(clientID, skew)
    /\ prior' = rl
    /\ call' = [kind |-> "Allow", key |-> clientID, now |-> clock,
                cnow |-> clock + skew,
                ok |-> Allow(rl, clientID, clock, clock + skew).ok]
    /\ UNCHANGED <<last, runVars, retryVars, indepVars, httpVars, concVars,
                   idVars, snap, liveVars, routeVars, stopped, win, poll, moreVars>>

CallSnapshot ==
    /\ rl' = GetMapStateLeaves(rl, clock)
    /\ prior' = rl
    /\ call' = [kind |-> "Snapshot", key |-> "", now |-> clock, cnow |-> clock,
                ok |-> FALSE]
    /\ UNCHANGED <<clock, last, runVars, retryVars, indepVars, httpVars, concVars,
                   idVars, snap, liveVars, routeVars, stopped, win, poll, moreVars>>

\* time passes: the latest call is no longer the one under observation
CallTick ==
    /\ Tick
    /\ prior' = rl
    /\ call' = NoAllow
    /\ UNCHANGED <<last, runVars, retryVars, indepVars, httpVars, concVars,
                   idVars, snap, liveVars, routeVars, stopped, win, poll, moreVars>>

NextCall ==
    \/ CallTick
    \/ \E clientID \in Keys, skew \in 0..MaxSkew : CallAllow(clientID, skew)
    \/ CallSnapshot

CallSpec == Init /\ [][NextCall]_vars

\* clamp(x, lo, hi)
Clamp(x, lo, hi) == IF x < lo THEN lo ELSE IF x > hi THEN hi ELSE x

\* The key of the latest call was tracked when the call was made.
WasTracked == call.kind = "Allow" /\ call.key \in DOMAIN prior.tokens

\* How long the key of the latest call had been idle at the call's now.
IdleFor == call.now - prior.lastUpdate[call.key]

\* floor(elapsed seconds * rate) for the key of the latest call: the
\* largest whole number of tokens the elapsed time has earned in full.
FloorGrant ==
    CHOOSE g \in 0..(IdleFor * prior.requestsPerSecond) :
        /\ g * TicksPerSecond <= IdleFor * prior.requestsPerSecond
        /\ (g + 1) * TicksPerSecond > IdleFor * prior.requestsPerSecond

(* C21: an Allow on a key that was tracked and idle for no more than        *)
(* inactiveThreshold finds t = clamp(tokens + floor(elapsed * rate), 0,     *)
(* burstSize), sets lastUpdate = now, returns true iff t > 0, and stores    *)
(* t - 1 when it admits and t = 0 when it rejects.                          *)
C21_RefillStep ==
    (WasTracked /\ IdleFor <= prior.inactiveThreshold) =>
        LET t == Clamp(prior.tokens[call.key] + FloorGrant, 0, prior.burstSize)
        IN  /\ call.key \in DOMAIN rl.tokens
            /\ rl.lastUpdate[call.key] = call.now
            /\ call.ok <=> t > 0
            /\ rl.tokens[call.key] = IF call.ok THEN t - 1 ELSE t
            /\ ~call.ok => t = 0

\* The latest call ran the eviction sweep.
SweepRan ==
    /\ call.kind = "Allow"
    /\ \/ prior.lastCleanup = ZeroTime
       \/ call.now - prior.lastCleanup > prior.cleanupInterval

(* C22: an Allow on a key that was tracked, idle for longer than            *)
(* inactiveThreshold and not removed by a sweep of the same call leaves     *)
(* lastUpdate = now and, with burstSize > 0, is admitted and leaves         *)
(* burstSize - 1 tokens, whatever the count was before.                     *)
C22_ReactivationReset ==
    (WasTracked /\ IdleFor > prior.inactiveThreshold /\ ~SweepRan) =>
        /\ call.key \in DOMAIN rl.tokens
        /\ rl.lastUpdate[call.key] = call.now
        /\ prior.burstSize > 0 =>
              /\ call.ok
              /\ rl.tokens[call.key] = prior.burstSize - 1

\* A reset that gave more than the refill of the stored count would have.
C22_Witness ==
    /\ WasTracked /\ IdleFor > prior.inactiveThreshold /\ ~SweepRan
    /\ prior.tokens[call.key] + FloorGrant < prior.burstSize
    /\ call.ok
    /\ rl.tokens[call.key] = prior.burstSize - 1

\* Key k became tracked, or untracked, in the latest call.
Added(k) == k \notin DOMAIN prior.tokens /\ k \in DOMAIN rl.tokens
Removed(k) == k \in DOMAIN prior.tokens /\ k \notin DOMAIN rl.tokens

\* The sweep of the latest call found key k idle for longer than
\* inactiveThreshold, by the clock as the sweep read it.
SweepFoundIdle(k) ==
    /\ SweepRan
    /\ k \in DOMAIN prior.lastUpdate
    /\ call.cnow - prior.lastUpdate[k] > prior.inactiveThreshold

\* The count a key created by an Allow is left with: burstSize, less the
\* token of the call when it had one to take.
CreatedWith == IF prior.burstSize > 0 THEN prior.burstSize - 1 ELSE 0

(* C23 as claimed: a key becomes tracked only in its own Allow under a      *)
(* non-zero rate, created with burstSize tokens; it becomes untracked only  *)
(* when a sweep finds it idle for longer than inactiveThreshold; no         *)
(* GetMapState and no rejected Allow adds a key; and after an Allow under a *)
(* non-zero rate its key is tracked.                                        *)
C23_KeyLifecycle_Claimed ==
    /\ \A k \in Keys :
          /\ Added(k) =>
                /\ call.kind = "Allow" /\ call.key = k
                /\ prior.requestsPerSecond # 0
                /\ rl.tokens[k] = CreatedWith
                /\ call.ok
          /\ Removed(k) => SweepFoundIdle(k)
    /\ (call.kind = "Allow" /\ prior.requestsPerSecond # 0) =>
          call.key \in DOMAIN rl.tokens
    /\ DOMAIN rl.lastUpdate = DOMAIN rl.tokens

(* C23 amended: the same, but the Allow that creates a key under            *)
(* burstSize = 0 is a rejection: a rejected Allow adds its own key, and no  *)
(* other, exactly when the key was untracked, the rate is not 0 and         *)
(* burstSize is 0.                                                          *)
C23_KeyLifecycle ==
    /\ \A k \in Keys :
          /\ Added(k) =>
                /\ call.kind = "Allow" /\ call.key = k
                /\ prior.requestsPerSecond # 0
                /\ rl.tokens[k] = CreatedWith
                /\ call.ok <=> prior.burstSize > 0
          /\ Removed(k) => SweepFoundIdle(k)
    /\ (call.kind = "Allow" /\ prior.requestsPerSecond # 0) =>
          call.key \in DOMAIN rl.tokens
    /\ DOMAIN rl.lastUpdate = DOMAIN rl.tokens

\* One rejected Allow whose sweep evicted another key and which created its
\* own.
C23_Witness ==
    /\ call.kind = "Allow"
    /\ ~call.ok
    /\ Added(call.key)
    /\ \E k \in Keys : k # call.key /\ Removed(k)

(* C24: an Allow runs the sweep if and only if now - lastCleanup exceeds    *)
(* cleanupInterval, the first Allow of a limiter and an Allow that ends in  *)
(* the zero-rate denial included, and a sweep leaves lastCleanup = now; a   *)
(* call that does not sweep leaves lastCleanup and removes no key; so       *)
(* lastCleanup never decreases and two sweeps in a row are more than        *)
(* cleanupInterval apart.                                                   *)
C24_SweepSchedule ==
    /\ call.kind = "Allow" =>
          /\ SweepRan =>
                /\ rl.lastCleanup = call.now
                /\ \A k \in DOMAIN prior.lastUpdate :
                      (k # call.key /\ SweepFoundIdle(k)) => k \notin DOMAIN rl.tokens
          /\ ~SweepRan =>
                /\ rl.lastCleanup = prior.lastCleanup
                /\ \A k \in Keys : ~Removed(k)
          /\ prior.lastCleanup = ZeroTime => rl.lastCleanup = call.now
          /\ (rl.lastCleanup # prior.lastCleanup /\ prior.lastCleanup # ZeroTime) =>
                rl.lastCleanup - prior.lastCleanup > prior.cleanupInterval
    /\ call.kind # "Allow" => rl.lastCleanup = prior.lastCleanup
    /\ rl.lastCleanup >= prior.lastCleanup
    /\ rl.lastCleanup <= clock

\* A zero-rate limiter whose denial swept for the second time.
C24_Witness ==
    /\ call.kind = "Allow"
    /\ prior.requestsPerSecond = 0
    /\ ~call.ok
    /\ prior.lastCleanup # ZeroTime
    /\ rl.lastCleanup = call.now
    /\ rl.lastCleanup - prior.lastCleanup = prior.cleanupInterval + 1

(* C25: a sweep removes, from tokens and from lastUpdate, exactly the keys  *)
(* whose lastUpdate is strictly older than the sweep's now less             *)
(* inactiveThreshold, and leaves the tokens and lastUpdate of every other   *)
(* key as they were: a key idle for exactly inactiveThreshold is retained.  *)
(* The key of the Allow that swept is then served by that Allow: removed,   *)
(* it is created again.                                                     *)
C25_SweepRemovesExactlyStale ==
    SweepRan =>
        \A k \in DOMAIN prior.tokens :
            LET stale == prior.lastUpdate[k] < call.cnow - prior.inactiveThreshold
            IN  /\ (stale /\ k # call.key) =>
                      k \notin DOMAIN rl.tokens /\ k \notin DOMAIN rl.lastUpdate
                /\ (stale /\ k = call.key) =>
                      rl.tokens[k] = CreatedWith /\ rl.lastUpdate[k] = call.now
                /\ (~stale /\ k # call.key) =>
                      /\ k \in DOMAIN rl.tokens /\ k \in DOMAIN rl.lastUpdate
                      /\ rl.tokens[k] = prior.tokens[k]
                      /\ rl.lastUpdate[k] = prior.lastUpdate[k]

\* A sweep that retained a key idle for exactly inactiveThreshold and
\* removed the key of its own call.
C25_Witness ==
    /\ SweepRan
    /\ call.key \in DOMAIN prior.tokens
    /\ prior.lastUpdate[call.key] < call.cnow - prior.inactiveThreshold
    /\ \E k \in DOMAIN prior.tokens :
          /\ k # call.key
          /\ call.cnow - prior.lastUpdate[k] = prior.inactiveThreshold
          /\ k \in DOMAIN rl.tokens

(* C27: a limiter with requestsPerSecond = 0 tracks no key after any        *)
(* sequence of Allow calls: GetMapState reports 0 clients, and a call       *)
(* changes nothing of the limiter but lastCleanup.                          *)
C27_ZeroRateTracksNothing ==
    rl.requestsPerSecond = 0 =>
        /\ DOMAIN rl.tokens = {}
        /\ DOMAIN rl.lastUpdate = {}
        /\ GetMapState(rl, clock).total_clients = 0
        /\ DOMAIN GetMapState(rl, clock).clients = {}
        /\ call.kind = "Allow" =>
              /\ ~call.ok
              /\ rl = [prior EXCEPT !.lastCleanup = rl.lastCleanup]

\* A zero-rate limiter with burst to give, after a call that changed
\* lastCleanup.
C27_Witness ==
    /\ rl.requestsPerSecond = 0
    /\ rl.burstSize > 0
    /\ call.kind = "Allow"
    /\ rl.lastCleanup # prior.lastCleanup
    /\ DOMAIN rl.tokens = {}

(* C28: an Allow that returns false for a key that was tracked leaves the   *)
(* key tracked, with tokens = 0 and lastUpdate = now.                       *)
C28_DenialKeepsBucket ==
    (WasTracked /\ ~call.ok) =>
        /\ call.key \in DOMAIN rl.tokens
        /\ call.key \in DOMAIN rl.lastUpdate
        /\ rl.tokens[call.key] = 0
        /\ rl.lastUpdate[call.key] = call.now

\* A denial, under a burst above 0, that moved the key's lastUpdate on.
C28_Witness ==
    /\ WasTracked /\ ~call.ok
    /\ prior.burstSize > 0
    /\ prior.lastUpdate[call.key] < call.now
    /\ rl.lastUpdate[call.key] = call.now

(* PollSpec: Allow calls on rl, with the run of calls the client of SoloKey *)
(* has made since its bucket was exhausted, each less than 1/rate seconds   *)
(* after the one before.                                                    *)
MaxPolls == 3

\* The run after an Allow(clientID) entered at now on limiter l.  A call on
\* SoloKey continues the run when it comes less than 1/rate seconds after the
\* latest one; otherwise a run starts if the call leaves the bucket empty.
NextPoll(p, l, clientID, now, cnow) ==
    LET res  == Allow(l, clientID, now, cnow)
        path == AllowPath(AllowSweep(l, now, cnow), clientID, now)
    IN  IF clientID # SoloKey THEN p
        ELSE IF p.key = SoloKey
                /\ (now - p.lastAt) * l.requestsPerSecond < TicksPerSecond
        THEN [p EXCEPT !.lastAt = now,
                       !.ok = res.ok,
                       !.calls = Min(p.calls + 1, MaxPolls),
                       !.longest = IF now - p.lastAt > p.longest
                                   THEN now - p.lastAt ELSE p.longest,
                       !.renewed = p.renewed \/ path # "refill"]
        ELSE IF SoloKey \in DOMAIN res.rl.tokens /\ res.rl.tokens[SoloKey] = 0
        THEN [key |-> SoloKey, since |-> now, lastAt |-> now, ok |-> FALSE,
              calls |-> 0, longest |-> 0, renewed |-> FALSE]
        ELSE NoPoll

PollAllow(clientID, skew) ==
    /\ AllowCall(clientID, skew)
    /\ poll' = NextPoll(poll, rl, clientID, clock, clock + skew)
    /\ UNCHANGED <<last, runVars, retryVars, indepVars, httpVars, concVars,
                   idVars, snap, liveVars, routeVars, prior, call, stopped, win, moreVars>>

NextPolls ==
    \/ Tick /\ UNCHANGED <<last, runVars, retryVars, indepVars, httpVars, concVars, extVars>>
    \/ \E clientID \in Keys, skew \in 0..MaxSkew : PollAllow(clientID, skew)

PollSpec == Init /\ [][NextPolls]_vars

(* C29 as claimed: once the bucket of a key is exhausted, every call of a   *)
(* run of calls on it that each come less than 1/rate seconds after the     *)
(* one before is rejected, however long the run lasts.                      *)
C29_FastPollingStarves_Claimed ==
    poll.calls > 0 => ~poll.ok

(* C29 amended: the same for a run in which no call finds the key idle      *)
(* beyond inactiveThreshold (a reset) or evicted by a sweep (a new          *)
(* bucket): every such call leaves tokens = 0 and lastUpdate = now, until a *)
(* sweep evicts the key.                                                    *)
C29_FastPollingStarves ==
    (poll.calls > 0 /\ ~poll.renewed) =>
        /\ ~poll.ok
        /\ SoloKey \in DOMAIN rl.tokens =>
              /\ rl.tokens[SoloKey] = 0
              /\ rl.lastUpdate[SoloKey] = poll.lastAt

\* A run that has lasted for 1/rate seconds or more, so that a single call
\* after that time would have been admitted, and is still rejected.
C29_Witness ==
    /\ poll.calls > 1
    /\ ~poll.renewed
    /\ ~poll.ok
    /\ rl.burstSize > 0
    /\ (poll.lastAt - poll.since) * rl.requestsPerSecond >= TicksPerSecond

(* WindowSpec: Allow calls on rl, with the admissions of one key counted    *)
(* from the start of an instant on, for as long as the key is neither       *)
(* evicted nor reset.                                                       *)

\* The count starts for SoloKey at the current instant, before any call that
\* this instant's clock reading has marked; the other key is the traffic
\* beside it.
Observe ==
    /\ win = NoWindow
    /\ rl.lastCleanup < clock
    /\ \A c \in DOMAIN rl.lastUpdate : rl.lastUpdate[c] < clock
    /\ win' = [key |-> SoloKey, from |-> clock, at |-> clock, admits |-> 0]
    /\ UNCHANGED <<clock, rl, last, runVars, retryVars, indepVars, httpVars, concVars,
                   idVars, snap, liveVars, routeVars, prior, call, stopped, poll, moreVars>>

\* The count after an Allow(clientID) entered at now on limiter l: it ends
\* when the call's sweep evicts the key, or the call resets it.
NextWindow(w, l, clientID, now, cnow) ==
    LET swept == AllowSweep(l, now, cnow)
    IN  IF w.key = "" THEN w
        ELSE IF w.key \in DOMAIN l.tokens /\ w.key \notin DOMAIN swept.tokens
        THEN NoWindow
        ELSE IF clientID # w.key THEN w
        ELSE IF AllowPath(swept, clientID, now) = "reset" THEN NoWindow
        ELSE [w EXCEPT !.at = now,
                       !.admits = IF Allow(l, clientID, now, cnow).ok
                                  THEN w.admits + 1 ELSE w.admits]

WindowAllow(clientID, skew) ==
    /\ AllowCall(clientID, skew)
    /\ win' = NextWindow(win, rl, clientID, clock, clock + skew)
    /\ UNCHANGED <<last, runVars, retryVars, indepVars, httpVars, concVars,
                   idVars, snap, liveVars, routeVars, prior, call, stopped, poll, moreVars>>

NextWindows ==
    \/ Tick /\ UNCHANGED <<last, runVars, retryVars, indepVars, httpVars, concVars, extVars>>
    \/ Observe
    \/ \E clientID \in Keys, skew \in 0..MaxSkew : WindowAllow(clientID, skew)

WindowSpec == Init /\ [][NextWindows]_vars

(* C30: over an interval in which a key is neither evicted nor reset, the   *)
(* Allow calls admitted for it number at most burstSize plus rate times     *)
(* the length of the interval in seconds.                                   *)
C30_RateBound ==
    win.key # "" =>
        win.admits * TicksPerSecond
            <= rl.burstSize * TicksPerSecond
                 + rl.requestsPerSecond * (win.at - win.from)

\* More admissions than the burst, a refill included, and so many that one
\* more would exceed the bound.
C30_Witness ==
    /\ win.key # ""
    /\ rl.requestsPerSecond > 0
    /\ win.at > win.from
    /\ win.admits > rl.burstSize
    /\ (win.admits + 1) * TicksPerSecond
          > rl.burstSize * TicksPerSecond + rl.requestsPerSecond * (win.at - win.from)

(* EvictSpec: time that passes without end.  Up to Horizon the clock        *)
(* counts; from then on an instant that passes moves every stored time one  *)
(* tick back instead, down to 0.  A time held at 0 is Horizon or more in    *)
(* the past, which is beyond every cleanupInterval and inactiveThreshold of *)
(* the model, so that the limiter treats it as it treats the true one.  The *)
(* clients of the keys stop calling one by one, all but the last; the       *)
(* others keep calling Allow.                                               *)
Horizon == (IF MaxInterval > MaxThreshold THEN MaxInterval ELSE MaxThreshold) + 1

ShiftTime(t) == IF t = ZeroTime THEN ZeroTime ELSE IF t > 0 THEN t - 1 ELSE 0

\* A limiter of rate 1 and burst 1: cleanup reads neither, nor the token counts.
InitEvict ==
    /\ \E ci \in Intervals, it \in Thresholds : rl = NewRateLimiter(1, 1, ci, it)
    /\ InitRest

Elapse ==
    /\ IF clock < Horizon
       THEN clock' = clock + 1 /\ rl' = rl
       ELSE /\ clock' = clock
            /\ rl' = [rl EXCEPT !.lastCleanup = ShiftTime(rl.lastCleanup),
                                !.lastUpdate = [c \in DOMAIN rl.lastUpdate |->
                                                  ShiftTime(rl.lastUpdate[c])]]
    /\ UNCHANGED <<last, runVars, retryVars, indepVars, httpVars, concVars, extVars>>

\* the client of a tracked key makes no further calls
Stop(k) ==
    /\ k \in DOMAIN rl.tokens
    /\ k \notin stopped
    /\ stopped \cup {k} # Keys
    /\ stopped' = stopped \cup {k}
    /\ UNCHANGED <<clock, rl, last, runVars, retryVars, indepVars, httpVars, concVars,
                   idVars, snap, liveVars, routeVars, prior, call, win, poll, moreVars>>

\* rl.Allow(clientID) by a client that has not stopped
EvictAllow(clientID, skew) ==
    /\ clientID \notin stopped
    /\ clock + skew <= Horizon
    /\ AllowCall(clientID, skew)
    /\ UNCHANGED <<last, runVars, retryVars, indepVars, httpVars, concVars, extVars>>

\* Some client calls Allow.
Traffic == \E clientID \in Keys, skew \in 0..MaxSkew : EvictAllow(clientID, skew)

NextEvict ==
    \/ Elapse
    \/ \E k \in Keys : Stop(k)
    \/ \E clientID \in Keys, skew \in 0..MaxSkew : EvictAllow(clientID, skew)

\* Time passes for ever and Allow keeps being called.
EvictSpec == InitEvict /\ [][NextEvict]_vars /\ WF_vars(Elapse) /\ WF_vars(Traffic)

(* C26: while Allow keeps being called as time goes on, every tracked key   *)
(* whose client has stopped calling is eventually removed from the store;   *)
(* a step that is not an Allow removes no key, and until an Allow removes   *)
(* it GetMapState reports a key idle for inactiveThreshold or longer with   *)
(* is_active false.                                                         *)
C26_IdleReclaimed ==
    /\ \A k \in Keys : (k \in stopped) ~> (k \notin DOMAIN rl.tokens)
    /\ [][DOMAIN rl'.tokens # DOMAIN rl.tokens => Traffic]_vars
    /\ [](\A k \in DOMAIN rl.tokens :
             clock - rl.lastUpdate[k] >= rl.inactiveThreshold =>
                 /\ k \in DOMAIN GetMapState(rl, clock).clients
                 /\ ~GetMapState(rl, clock).clients[k].is_active)

\* A key whose client had stopped and which a sweep has evicted.
C26_Witness ==
    \E k \in stopped : k \notin DOMAIN rl.tokens

(* C31: an Allow for a key leaves the stored tokens and lastUpdate of every *)
(* other key as they were and tracks no other key, except that its sweep    *)
(* may remove other keys, and then only keys idle for longer than           *)
(* inactiveThreshold when the sweep looks at them.                          *)
C31_AllowFrame ==
    call.kind = "Allow" =>
        \A k \in Keys \ {call.key} :
            /\ k \in DOMAIN rl.tokens =>
                  /\ k \in DOMAIN prior.tokens
                  /\ rl.tokens[k] = prior.tokens[k]
            /\ k \in DOMAIN rl.lastUpdate =>
                  /\ k \in DOMAIN prior.lastUpdate
                  /\ rl.lastUpdate[k] = prior.lastUpdate[k]
            /\ (k \in DOMAIN prior.tokens /\ k \notin DOMAIN rl.tokens) =>
                  /\ SweepRan
                  /\ call.cnow - prior.lastUpdate[k] > prior.inactiveThreshold
            /\ (k \in DOMAIN prior.lastUpdate /\ k \notin DOMAIN rl.lastUpdate) =>
                  /\ SweepRan
                  /\ call.cnow - prior.lastUpdate[k] > prior.inactiveThreshold

\* An admitted Allow that swept and changed its own key, beside another key
\* that a refill would have changed and that the sweep retained.
C31_Witness ==
    /\ call.kind = "Allow" /\ call.ok /\ SweepRan
    /\ call.key \in DOMAIN prior.tokens
    /\ rl.tokens[call.key] # prior.tokens[call.key]
    /\ \E k \in DOMAIN rl.tokens :
          /\ k # call.key
          /\ rl.tokens[k] < rl.burstSize
          /\ rl.lastUpdate[k] < call.now
          /\ (call.now - rl.lastUpdate[k]) * rl.requestsPerSecond >= TicksPerSecond

(* MapSpec: the Writers call Allow again and again, for any key, one map    *)
(* operation at a time, while the Readers call GetMapState; rl.mu admits    *)
(* one writer, or any number of readers.                                    *)
MaxMapTime == 2

\* The thread that calls GetMapState here.
MapReaders == {"r1"}

\* A limiter of burst 1 and of rate 0 or 1: the keys of the maps do not depend on
\* the counts.
InitMap ==
    /\ \E r \in {0, 1}, ci \in Intervals, it \in Thresholds :
          rl = NewRateLimiter(r, 1, ci, it)
    /\ InitRest

mapFrame == <<last, runVars, retryVars, indepVars, httpVars, thr, idVars, snap,
              routeVars, histVars, logged, repoVars, app>>

\* rl.mu.Lock(); now := time.Now()
MapLock(p, clientID) ==
    /\ job[p].pc = "start"
    /\ TryLock(mu)
    /\ readers = {}
    /\ mu' = p
    /\ job' = [job EXCEPT ![p] = [NoJob EXCEPT !.pc = "sweep", !.key = clientID,
                                               !.now = clock]]
    /\ UNCHANGED <<clock, rl, liveVars, mapFrame>>

\* if now.Sub(rl.lastCleanup) > rl.cleanupInterval; cleanup(): now := time.Now()
MapSweep(p) ==
    /\ job[p].pc = "sweep"
    /\ job' = IF SweepDue(rl, job[p].now)
              THEN [job EXCEPT ![p].pc = "range", ![p].cnow = clock,
                               ![p].todo = DOMAIN rl.lastUpdate]
              ELSE [job EXCEPT ![p].pc = "exists"]
    /\ UNCHANGED <<clock, rl, mu, liveVars, mapFrame>>

\* for clientID, lastUpdate := range rl.lastUpdate: delete(rl.tokens, clientID)
MapRange(p, c) ==
    /\ job[p].pc = "range"
    /\ c \in job[p].todo
    /\ IF IsStale(rl, c, job[p].cnow)
       THEN /\ rl' = [rl EXCEPT !.tokens = MapDelete(rl.tokens, {c})]
            /\ job' = [job EXCEPT ![p].pc = "delete", ![p].cur = c,
                                  ![p].todo = job[p].todo \ {c}]
       ELSE /\ rl' = rl
            /\ job' = [job EXCEPT ![p].todo = job[p].todo \ {c}]
    /\ UNCHANGED <<clock, mu, liveVars, mapFrame>>

\* delete(rl.lastUpdate, clientID)
MapDeleteStamp(p) ==
    /\ job[p].pc = "delete"
    /\ rl' = [rl EXCEPT !.lastUpdate = MapDelete(rl.lastUpdate, {job[p].cur})]
    /\ job' = [job EXCEPT ![p].pc = "range", ![p].cur = "", ![p].deleted = TRUE]
    /\ UNCHANGED <<clock, mu, liveVars, mapFrame>>

\* the range is over; rl.lastCleanup = now
MapSwept(p) ==
    /\ job[p].pc = "range"
    /\ job[p].todo = {}
    /\ rl' = [rl EXCEPT !.lastCleanup = job[p].now]
    /\ job' = [job EXCEPT ![p].pc = "exists"]
    /\ UNCHANGED <<clock, mu, liveVars, mapFrame>>

\* if !exists: return false, or rl.tokens[clientID] = rl.burstSize; else if
\* inactive: rl.tokens[clientID] = rl.burstSize
MapInit(p) ==
    /\ job[p].pc = "exists"
    /\ IF DeniesUnseen(rl, job[p].key)
       THEN /\ rl' = rl
            /\ job' = [job EXCEPT ![p].pc = "unlock"]
       ELSE IF job[p].key \notin DOMAIN rl.tokens \/ IsInactive(rl, job[p].key, job[p].now)
       THEN /\ rl' = [rl EXCEPT !.tokens = MapPut(rl.tokens, job[p].key, rl.burstSize)]
            /\ job' = [job EXCEPT ![p].pc = "stamp"]
       ELSE /\ rl' = rl
            /\ job' = [job EXCEPT ![p].pc = "refill"]
    /\ UNCHANGED <<clock, mu, liveVars, mapFrame>>

\* rl.lastUpdate[clientID] = now, of the initialization or the reset
MapInitStamp(p) ==
    /\ job[p].pc = "stamp"
    /\ rl' = [rl EXCEPT !.lastUpdate = MapPut(rl.lastUpdate, job[p].key, job[p].now)]
    /\ job' = [job EXCEPT ![p].pc = "refill"]
    /\ UNCHANGED <<clock, mu, liveVars, mapFrame>>

\* rl.tokens[clientID] = rl.calculateCurrentTokens(clientID, now)
MapRefill(p) ==
    /\ job[p].pc = "refill"
    /\ rl' = [rl EXCEPT !.tokens = MapPut(rl.tokens, job[p].key,
                                      calculateCurrentTokens(rl, job[p].key, job[p].now))]
    /\ job' = [job EXCEPT ![p].pc = "restamp"]
    /\ UNCHANGED <<clock, mu, liveVars, mapFrame>>

\* rl.lastUpdate[clientID] = now
MapRefillStamp(p) ==
    /\ job[p].pc = "restamp"
    /\ rl' = [rl EXCEPT !.lastUpdate = MapPut(rl.lastUpdate, job[p].key, job[p].now)]
    /\ job' = [job EXCEPT ![p].pc = "check"]
    /\ UNCHANGED <<clock, mu, liveVars, mapFrame>>

\* if rl.tokens[clientID] > 0 { rl.tokens[clientID]--; return true }; return false
MapConsume(p) ==
    /\ job[p].pc = "check"
    /\ rl' = IF rl.tokens[job[p].key] > 0 THEN AllowConsume(rl, job[p].key) ELSE rl
    /\ job' = [job EXCEPT ![p].pc = "unlock"]
    /\ UNCHANGED <<clock, mu, liveVars, mapFrame>>

\* the deferred rl.mu.Unlock(); the thread may call Allow again
MapUnlock(p) ==
    /\ job[p].pc = "unlock"
    /\ mu' = NoOwner
    /\ job' = [job EXCEPT ![p].pc = "start"]
    /\ UNCHANGED <<clock, rl, liveVars, mapFrame>>

\* time passes while the threads run
MapTick ==
    /\ clock < MaxMapTime
    /\ Tick
    /\ UNCHANGED <<mu, job, liveVars, mapFrame>>

NextMap ==
    \/ MapTick
    \/ \E p \in Writers, clientID \in Keys : MapLock(p, clientID)
    \/ \E p \in Writers : MapSweep(p)
    \/ \E p \in Writers, c \in Keys : MapRange(p, c)
    \/ \E p \in Writers : MapDeleteStamp(p)
    \/ \E p \in Writers : MapSwept(p)
    \/ \E p \in Writers : MapInit(p)
    \/ \E p \in Writers : MapInitStamp(p)
    \/ \E p \in Writers : MapRefill(p)
    \/ \E p \in Writers : MapRefillStamp(p)
    \/ \E p \in Writers : MapConsume(p)
    \/ \E p \in Writers : MapUnlock(p)
    \/ \E q \in MapReaders : RCall(q)
    \/ \E q \in MapReaders : RLock(q)
    \/ \E q \in MapReaders : ReadState(q)
    \/ \E q \in MapReaders : RUnlock(q)

MapSpec == InitMap /\ [][NextMap]_vars

(* C32: whenever no thread holds rl.mu for writing, which is whenever a     *)
(* GetMapState is inside the lock and whenever an Allow has just taken it,  *)
(* rl.tokens and rl.lastUpdate have the same keys.                          *)
C32_MapsAgree ==
    (\/ mu = NoOwner
     \/ readers # {}
     \/ \E p \in Writers : job[p].pc = "sweep")
        => DOMAIN rl.tokens = DOMAIN rl.lastUpdate

\* A GetMapState inside the lock after an Allow that evicted one key and
\* created its own.
C32_Witness ==
    /\ \E q \in MapReaders : rpc[q] = "runlock"
    /\ \E p \in Writers :
          /\ job[p].pc = "start"
          /\ job[p].deleted
          /\ job[p].key \in DOMAIN rl.tokens
          /\ DOMAIN rl.tokens # Keys

(* LogSpec: requests of every shape pass RateLimitMiddleware, which keys    *)
(* them with GetClientID, inside LoggingMiddleware, which labels them with  *)
(* getClientIP once they are served.                                        *)
LoggedAddrs == RemoteAddrs \cup {"[a]:7"}

LoggedRequests ==
    { [xRealIP |-> x, xForwardedFor |-> f, RemoteAddr |-> a] :
         x \in RealIPs, f \in ForwardedFors, a \in LoggedAddrs }

logFrame == <<clock, rl, last, runVars, retryVars, indepVars, httpVars, concVars,
              idVars, snap, liveVars, routeVars, histVars, job, repoVars, app>>

\* clientID := rateLimiter.GetClientID(r)
Limit(r) ==
    /\ logged.state # "keyed"
    /\ logged' = [r |-> r, id |-> GetClientID(r), label |-> "", state |-> "keyed"]
    /\ UNCHANGED logFrame

\* clientIP := getClientIP(r); logger.Info("Request completed", ...)
LogCompleted ==
    /\ logged.state = "keyed"
    /\ logged' = [logged EXCEPT !.label = getClientIP(logged.r), !.state = "logged"]
    /\ UNCHANGED logFrame

NextLog ==
    \/ \E r \in LoggedRequests : Limit(r)
    \/ LogCompleted

LogSpec == InitHttp /\ [][NextLog]_vars

(* C33: the client_ip a request is logged with is the key it was            *)
(* rate-limited with, for every request.                                    *)
C33_LabelIsKey ==
    logged.state = "logged" => logged.label = logged.id

(* RepoSpec: Initialize, FindLocation, HealthCheck and Close called on one  *)
(* FileRepository in any order, a Close possibly between the two locked     *)
(* reads of a FindLocation.                                                 *)
\* The rows of a data file: ip, city, country; a row of another length is
\* one the csv reader returns an error for.
Header == [ip |-> "ip", city |-> "city", country |-> "country"]
Row8 == [ip |-> "8", city |-> "NYC", country |-> "US"]
Row1NoCity == [ip |-> "1", city |-> " ", country |-> "US"]
RowNoIP == [ip |-> "x", city |-> "NYC", country |-> "US"]
ShortRow == [ip |-> "8"]

\* The data files: whether os.Open finds the file, and its rows.
Files ==
    { [exists |-> FALSE, rows |-> <<>>],
      [exists |-> TRUE, rows |-> <<>>],
      [exists |-> TRUE, rows |-> <<Header>>],
      [exists |-> TRUE, rows |-> <<Header, Row8>>],
      [exists |-> TRUE, rows |-> <<Row8>>],
      [exists |-> TRUE, rows |-> <<Row1NoCity, Row8>>],
      [exists |-> TRUE, rows |-> <<Header, RowNoIP, Row1NoCity, Row8>>],
      [exists |-> TRUE, rows |-> <<Header, Row8, ShortRow>>],
      [exists |-> TRUE, rows |-> <<ShortRow, Row8>>] }

\* reader.FieldsPerRecord = 3
IsRecord(row) == DOMAIN row = {"ip", "city", "country"}

\* isValidIP(ip)
isValidIP(ip) == ip \in ParsesAsIP

\* processRecord(record): "" for nil, the error, or "panic" for the write
\* r.data[ip] = location to a nil map.
processRecord(r, record) ==
    IF TrimSpace(record.ip) = "" \/ TrimSpace(record.city) = ""
       \/ TrimSpace(record.country) = ""
    THEN [repo |-> r, err |-> "empty fields in record"]
    ELSE IF ~isValidIP(TrimSpace(record.ip))
    THEN [repo |-> r, err |-> "invalid IP address: " \o TrimSpace(record.ip)]
    ELSE IF r.isNil THEN [repo |-> r, err |-> "panic"]
    ELSE [repo |-> [r EXCEPT !.data = MapPut(r.data, TrimSpace(record.ip),
                                             [country |-> TrimSpace(record.country),
                                              city |-> TrimSpace(record.city)])],
          err |-> ""]

\* Initialize, read remaining records: a row the reader fails on ends the
\* load with an error, a row processRecord fails on is skipped.
RECURSIVE ReadRemaining(_, _)
ReadRemaining(r, rows) ==
    IF rows = <<>> THEN [repo |-> [r EXCEPT !.loaded = TRUE], err |-> ""]
    ELSE IF ~IsRecord(Head(rows)) THEN [repo |-> r, err |-> "failed to read record"]
    ELSE LET done == processRecord(r, Head(rows))
         IN  IF done.err = "panic" THEN done
             ELSE ReadRemaining(done.repo, Tail(rows))

\* FileRepository.Initialize on the file f
Initialize(r, f) ==
    IF ~f.exists THEN [repo |-> r, err |-> "failed to open data file"]
    ELSE IF f.rows = <<>> \/ ~IsRecord(Head(f.rows))
    THEN [repo |-> r, err |-> "failed to read first record"]
    ELSE IF ~isValidIP(Head(f.rows).ip) THEN ReadRemaining(r, Tail(f.rows))
    ELSE LET first == processRecord(r, Head(f.rows))
         IN  IF first.err = "panic" THEN first
             ELSE IF first.err # ""
             THEN [repo |-> r, err |-> "failed to process first record"]
             ELSE ReadRemaining(first.repo, Tail(f.rows))

\* A Close that empties the map and leaves loaded as it is.
CloseKeepsLoaded(r) == [r EXCEPT !.data = NewFileRepository.data, !.isNil = TRUE]

\* FileRepository.Close: r.data = nil; r.loaded = false
Close(r) ==
    [r EXCEPT !.data = NewFileRepository.data, !.isNil = TRUE, !.loaded = FALSE]

\* normalizeIP(ip)
normalizeIP(ip) == TrimSpace(ip)

\* FileRepository.FindLocation, location, exists := r.data[normalizedIP]
Lookup(r, ip) ==
    IF normalizeIP(ip) \notin DOMAIN r.data
    THEN [location |-> NoLocation, err |-> "location not found for IP: " \o ip]
    ELSE [location |-> r.data[normalizeIP(ip)], err |-> ""]

\* FileRepository.HealthCheck; exists: whether os.Stat finds the data file
RepositoryHealthCheck(r, exists) ==
    IF ~r.loaded THEN "repository not loaded"
    ELSE IF ~exists THEN "data file does not exist"
    ELSE ""

LookupIPs == {"8", " 8", "1", "x"}

repoFrame == <<clock, rl, last, runVars, retryVars, indepVars, httpVars, concVars,
               idVars, snap, liveVars, routeVars, histVars, job, logged, app>>

\* No call is between its steps and no call has panicked.
RepoIdle == rcall.state # "lookup" /\ ~rcall.panic

\* repo.Initialize(ctx)
CallInitialize(f) ==
    /\ RepoIdle
    /\ \E done \in {Initialize(repo, f)} :
          /\ repo' = done.repo
          /\ life' = IF done.err = "" THEN "initialized" ELSE life
          /\ rcall' = [NoRepoCall EXCEPT !.op = "Initialize", !.state = "returned",
                                         !.before = life, !.prior = repo,
                                         !.panic = (done.err = "panic"),
                                         !.err = done.err]
    /\ UNCHANGED repoFrame

\* repo.FindLocation(ctx, ip): loaded := r.loaded, and the return when not
\* loaded
CallFindLocation(ip) ==
    /\ RepoIdle
    /\ rcall' = [NoRepoCall EXCEPT !.op = "FindLocation", !.ip = ip,
                                   !.before = life, !.prior = repo,
                                   !.state = IF repo.loaded THEN "lookup" ELSE "returned",
                                   !.err = IF repo.loaded THEN ""
                                           ELSE "repository not initialized"]
    /\ UNCHANGED <<repo, life, repoFrame>>

\* repo.FindLocation, the rest: the lookup and the return
FindLocationReturns ==
    /\ rcall.state = "lookup"
    /\ rcall' = [rcall EXCEPT !.state = "returned",
                              !.err = Lookup(repo, rcall.ip).err,
                              !.location = Lookup(repo, rcall.ip).location]
    /\ UNCHANGED <<repo, life, repoFrame>>

\* repo.HealthCheck(ctx)
CallHealthCheck(exists) ==
    /\ RepoIdle
    /\ rcall' = [NoRepoCall EXCEPT !.op = "HealthCheck", !.state = "returned",
                                   !.before = life, !.prior = repo,
                                   !.err = RepositoryHealthCheck(repo, exists)]
    /\ UNCHANGED <<repo, life, repoFrame>>

\* repo.Close()
CallClose ==
    /\ RepoIdle
    /\ repo' = Close(repo)
    /\ life' = "closed"
    /\ rcall' = [NoRepoCall EXCEPT !.op = "Close", !.state = "returned",
                                   !.before = life, !.prior = repo]
    /\ UNCHANGED repoFrame

\* repo.Close() by another goroutine, between the two reads of a FindLocation
CloseMeanwhile ==
    /\ rcall.state = "lookup"
    /\ repo' = Close(repo)
    /\ life' = "closed"
    /\ UNCHANGED <<rcall, repoFrame>>

NextRepo ==
    \/ \E f \in Files : CallInitialize(f)
    \/ \E ip \in LookupIPs : CallFindLocation(ip)
    \/ FindLocationReturns
    \/ \E exists \in BOOLEAN : CallHealthCheck(exists)
    \/ CallClose
    \/ CloseMeanwhile

RepoSpec == InitHttp /\ [][NextRepo]_vars

(* C34: a FindLocation or a HealthCheck called on a repository that no      *)
(* Initialize has loaded yet, or that was closed since, returns an error    *)
(* and no location; Close returns nil whatever the state, leaves the        *)
(* repository not loaded, and a second Close changes nothing.               *)
C34_OnlyWhenLoaded ==
    /\ (rcall.op \in {"FindLocation", "HealthCheck"} /\ rcall.state = "returned"
        /\ rcall.before # "initialized") =>
            rcall.err # "" /\ rcall.location = NoLocation
    /\ (rcall.op = "Close" /\ rcall.state = "returned") =>
            /\ rcall.err = "" /\ ~rcall.panic
            /\ ~repo.loaded
            /\ rcall.before = "closed" => repo = rcall.prior
    /\ (life = "closed" /\ rcall.state = "returned"
        /\ rcall.op \in {"FindLocation", "HealthCheck"}) =>
            rcall.err # "" /\ rcall.location = NoLocation

\* A FindLocation of an address the map holds, on a repository whose
\* Initialize failed after it had stored the record.
C34_Witness ==
    /\ rcall.op = "FindLocation" /\ rcall.state = "returned"
    /\ rcall.before = "new"
    /\ normalizeIP(rcall.ip) \in DOMAIN repo.data
    /\ rcall.err = "repository not initialized"

(* StopSpec: the App from NewApp to the end of Stop, with requests served   *)
(* through the handler of SetupRoutesWithMiddleware from Start until        *)
(* server.Shutdown.                                                         *)
\* The data files of a deployment: those that fail to load, and those that
\* load the records of RepositoryData.
AppFiles ==
    {f \in Files : \/ Initialize(NewFileRepository, f).err # ""
                   \/ Initialize(NewFileRepository, f).repo.data = RepositoryData}

stopFrame == <<last, runVars, retryVars, indepVars, concVars, idVars, snap, liveVars,
               histVars, job, logged, rcall>>

\* NewApp: repo.Initialize(ctx), then the service, the limiter, the handler
NewApp(f) ==
    /\ app = "none"
    /\ repo' = Initialize(repo, f).repo
    /\ life' = IF Initialize(repo, f).err = "" THEN "initialized" ELSE life
    /\ app' = IF Initialize(repo, f).err = "" THEN "created" ELSE "failed"
    /\ router' = IF Initialize(repo, f).err = "" THEN "limiter" ELSE router
    /\ UNCHANGED <<clock, rl, route, httpVars, stopFrame>>

\* App.Start: go a.server.ListenAndServe()
Start ==
    /\ app = "created"
    /\ app' = "serving"
    /\ UNCHANGED <<clock, rl, routeVars, httpVars, repoVars, stopFrame>>

\* One request through the handler, while the server accepts requests.
ServeApp(r, skew) ==
    \E chain \in {ServeChain(rl, drl, r, clock, clock + skew)},
       mux \in {ServeMux(r, repo.loaded)} :
        /\ app \in {"serving", "closing"}
        /\ served < MaxRequests
        /\ clock + skew <= MaxTime
        /\ skew = 0 \/ SweepDue(rl, clock)
        /\ rl' = chain.rl
        /\ drl' = chain.drl
        /\ clock' = clock + skew
        /\ served' = served + 1
        /\ route' = IF chain.inner.next
                     THEN [method    |-> r.Method,
                           path      |-> r.Path,
                           ip        |-> r.ip,
                           loaded    |-> repo.loaded,
                           handler   |-> mux.handler,
                           recovered |-> FALSE,
                           limited   |-> FALSE,
                           codes     |-> mux.w.codes,
                           body      |-> mux.w.body,
                           location  |-> mux.w.location]
                     ELSE [method    |-> r.Method,
                           path      |-> r.Path,
                           ip        |-> r.ip,
                           loaded    |-> repo.loaded,
                           handler   |-> "",
                           recovered |-> FALSE,
                           limited   |-> TRUE,
                           codes     |-> <<chain.inner.w.status>>,
                           body      |-> "",
                           location  |-> NoLocation]
        /\ UNCHANGED <<router, resp, repoVars, app, stopFrame>>

\* App.Stop, a.repository.Close()
StopClose ==
    /\ app = "serving"
    /\ repo' = Close(repo)
    /\ life' = "closed"
    /\ app' = "closing"
    /\ UNCHANGED <<clock, rl, routeVars, httpVars, stopFrame>>

\* App.Stop, a.server.Shutdown(shutdownCtx), in time or not
Shutdown ==
    /\ app = "closing"
    /\ app' = "stopped"
    /\ UNCHANGED <<clock, rl, routeVars, httpVars, repoVars, stopFrame>>

NextStop ==
    \/ \E f \in AppFiles : NewApp(f)
    \/ Start
    \/ \E r \in RouteRequests, skew \in 0..MaxSkew : ServeApp(r, skew)
    \/ StopClose
    \/ Shutdown

StopSpec == InitHttp /\ [][NextStop]_vars

\* The latest request was handled after Stop closed the repository.
InWindow == route.path # "" /\ ~route.loaded /\ app \in {"closing", "stopped"}

C10_ResetEqualsLazy_Claimed ==
    last.path = "reset" => last.pre = last.lazy

(* C10 amended: on the reset path the pre-decrement token count is          *)
(* burstSize, never less than the lazy refill, and equal to it whenever     *)
(* requestsPerSecond * inactiveThreshold (in seconds) >= burstSize.         *)
C10_ResetEqualsLazy ==
    last.path = "reset" =>
        /\ last.pre = rl.burstSize
        /\ last.lazy <= last.pre
        /\ rl.requestsPerSecond * rl.inactiveThreshold >= rl.burstSize * TicksPerSecond
              => last.lazy = last.pre

C10_Witness ==
    /\ last.path = "reset"
    /\ rl.burstSize >= 1
    /\ rl.requestsPerSecond * rl.inactiveThreshold >= rl.burstSize * TicksPerSecond
    /\ last.lazy = last.pre

=============================================================================
